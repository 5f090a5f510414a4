--------------------------- MODULE Accounts_proofs ---------------------------
(***************************************************************************)
(* Theorems about Accounts, for every set of users, addresses and requests *)
(* and for every limit: types, the proof behind a verified address, tokens *)
(* exchanged once, and codes that implement OneTimeCodes.                  *)
(***************************************************************************)
EXTENDS Accounts, FiniteSetTheorems, SequenceTheorems, TLAPS

(***************************************************************************)
(* The data: requests, rows and codes.                                     *)
(***************************************************************************)

(* Where a request has no account yet.                                     *)
Anonymous == {"idle", "insert", "invite", "lookup", "provision", "raced"}

LEMMA RequestForms ==
  ASSUME NEW q \in Request
  PROVE  /\ q.pc \in Anonymous \cup {"close", "issue", "mark", "verified", "password",
                                    "address", "persist", "clear", "rotate", "vouch", "link",
                                    "assign", "secret"}
         /\ q.pc \in {"insert", "invite", "lookup", "provision", "raced"} => q.to \in Emails
         /\ q.pc = "assign" => q.to \in Emails /\ q.ends \in BOOLEAN
         /\ q.pc \in {"vouch", "link"} =>
              /\ q.to \in Emails
              /\ [q EXCEPT !.pc = "link"] = [pc |-> "link", user |-> q.user, to |-> q.to]
         /\ q.pc \in {"close", "issue"} =>
              /\ q.user \in Users /\ q.kind \in Kinds
              /\ q.to \in Emails /\ q.again \in BOOLEAN
              /\ [q EXCEPT !.pc = "issue"] = [pc |-> "issue", user |-> q.user, kind |-> q.kind,
                                              to |-> q.to, again |-> q.again]
         /\ q.pc \notin Anonymous => q.user \in Users
         /\ q.pc = "mark" => q.code \in Slips
         /\ q.pc \in {"mark", "verified", "address"} =>
              q.to \in Emails \cup {NoEmail} /\ q.seen \in BOOLEAN
         /\ q.pc = "rotate" => q.old \in Tokens \ {0}
BY DEF Request, Idle, Anonymous

LEMMA RequestTypes ==
  /\ Idle \in Request /\ Idle.pc = "idle"
  /\ \A pc \in {"insert", "invite", "lookup", "provision", "raced"}, e \in Emails :
       [pc |-> pc, to |-> e] \in Request
  /\ \A pc \in {"vouch", "link"}, u \in Users, e \in Emails :
       [pc |-> pc, user |-> u, to |-> e] \in Request
  /\ \A pc \in {"close", "issue"}, u \in Users, kind \in Kinds, e \in Emails, again \in BOOLEAN :
       [pc |-> pc, user |-> u, kind |-> kind, to |-> e, again |-> again] \in Request
  /\ \A u \in Users, k \in Slips, e \in Emails \cup {NoEmail}, seen \in BOOLEAN :
       [pc |-> "mark", user |-> u, code |-> k, to |-> e, seen |-> seen] \in Request
  /\ \A pc \in {"verified", "password", "address"}, u \in Users, e \in Emails \cup {NoEmail},
        seen \in BOOLEAN :
       [pc |-> pc, user |-> u, to |-> e, seen |-> seen] \in Request
  /\ \A u \in Users, e \in Emails, ends \in BOOLEAN :
       [pc |-> "assign", user |-> u, to |-> e, ends |-> ends] \in Request
  /\ \A pc \in {"password", "persist", "clear", "secret"}, u \in Users :
       [pc |-> pc, user |-> u] \in Request
  /\ \A u \in Users, t \in Tokens \ {0} : [pc |-> "rotate", user |-> u, old |-> t] \in Request
BY DEF Request, Idle

LEMMA SeqForm ==
  ASSUME NEW S, NEW s
  PROVE  s \in Seq(S) <=> /\ Len(s) \in Nat /\ DOMAIN s = 1..Len(s)
                          /\ s \in [1..Len(s) -> S]
<1>1. s \in Seq(S) => /\ Len(s) \in Nat /\ DOMAIN s = 1..Len(s)
                      /\ s \in [1..Len(s) -> S]
  BY LenProperties
<1>2. Len(s) \in Nat /\ s \in [1..Len(s) -> S] => s \in Seq(S)
  BY SeqDef
<1> QED BY <1>1, <1>2

(* A code whose time is over.                                              *)
Aged(c) == [c EXCEPT !.fresh = FALSE]

(* One code is another, later.                                             *)
Continues(c, d) ==
  /\ d.user = c.user /\ d.kind = c.kind /\ d.to = c.to
  /\ c.taken > 0 => d.taken > 0

LEMMA CodeForms ==
  ASSUME NEW c \in Code
  PROVE  /\ c.user \in Users /\ c.kind \in Kinds /\ c.to \in Emails
         /\ c.open \in BOOLEAN /\ c.taken \in Nat
         /\ Closed(c) \in Code /\ Continues(c, Closed(c))
         /\ ~Closed(c).open /\ Closed(c).taken = c.taken
         /\ Aged(c) \in Code /\ Continues(c, Aged(c))
         /\ Aged(c).open = c.open /\ Aged(c).taken = c.taken
         /\ Accepted(c) \in Code /\ Continues(c, Accepted(c))
         /\ ~Accepted(c).open /\ Accepted(c).taken = c.taken + 1
         /\ Continues(c, c)
<1>1. /\ c.user \in Users /\ c.kind \in Kinds /\ c.to \in Emails
      /\ c.open \in BOOLEAN /\ c.taken \in Nat /\ Continues(c, c)
  BY DEF Code, Continues
<1>2. /\ Closed(c) \in Code /\ Continues(c, Closed(c))
      /\ ~Closed(c).open /\ Closed(c).taken = c.taken
  BY DEF Code, Closed, Continues
<1>3. /\ Aged(c) \in Code /\ Continues(c, Aged(c))
      /\ Aged(c).open = c.open /\ Aged(c).taken = c.taken
  BY DEF Code, Aged, Continues
<1>4. Accepted(c) \in Code
  <2>1. \A n \in Nat : [c EXCEPT !.open = FALSE, !.taken = n] \in Code
    BY DEF Code
  <2>2. c.taken + 1 \in Nat
    BY <1>1
  <2>3. [c EXCEPT !.open = FALSE, !.taken = c.taken + 1] \in Code
    BY <2>1, <2>2
  <2> QED BY <2>3 DEF Accepted
<1>5. ~Accepted(c).open /\ Accepted(c).taken = c.taken + 1
  BY DEF Code, Accepted
<1>6. Continues(c, Accepted(c))
  BY <1>1, <1>5 DEF Code, Accepted, Continues
<1> QED BY <1>1, <1>2, <1>3, <1>4, <1>5, <1>6

(***************************************************************************)
(* The invariant.                                                          *)
(***************************************************************************)

Busy == {r \in Requests : request[r].pc # "idle"}

(* Every request that was begun adds one code and one token at most.       *)
Counted ==
  /\ Len(code) + Cardinality(Busy) <= starts
  /\ signed + Cardinality(Busy) <= starts

(* Among the rows of codes C: one of this kind that was sent to e and      *)
(* accepted.                                                               *)
Delivered(C, u, kind, e) ==
  \E k \in DOMAIN C : /\ C[k].user = u /\ C[k].kind = kind
                      /\ C[k].to = e /\ C[k].taken > 0

RowSound(w) ==
  /\ w.status = "none" => ~w.verified /\ w.token = 0 /\ w.vouched = {} /\ w.assigned = {}
  /\ w.status = "gone" => w.verified

(* What went to e still proves the address of a row, or an administrator   *)
(* gave the row another since.                                             *)
Meets(w, e) == e = w.email \/ w.email \in w.assigned

(* A code to verify an account was sent to the address the account has     *)
(* until it is verified.                                                   *)
CodeSound(R, c) ==
  /\ R[c.user].status # "none"
  /\ c.kind = "verify" /\ ~R[c.user].verified => Meets(R[c.user], c.to)

(* What a request relies on since it looked.                               *)
RequestSound(R, C, q) ==
  /\ q.pc \notin Anonymous => R[q.user].status # "none"
  /\ q.pc \in {"close", "issue"} /\ q.kind = "verify" /\ ~R[q.user].verified =>
       Meets(R[q.user], q.to)
  /\ q.pc = "vouch" /\ ~R[q.user].verified => Meets(R[q.user], q.to)
  /\ q.pc = "mark" =>
       /\ q.code \in DOMAIN C /\ C[q.code].user = q.user
       /\ C[q.code].kind = "email" => R[q.user].verified /\ q.to = C[q.code].to
  /\ q.pc = "verified" /\ ~q.seen => \E e \in Emails : Delivered(C, q.user, "verify", e)
  /\ q.pc = "address" =>
       R[q.user].verified /\ q.to \in Emails /\ Delivered(C, q.user, "email", q.to)

(* No two accounts honour the same token, and none one that was exchanged. *)
TokensSound ==
  /\ \A u \in Users : row[u].token <= signed
  /\ \A u, v \in Users : u # v /\ row[u].token # 0 => row[u].token # row[v].token
  /\ \A t \in Tokens :
       /\ heirs[t] <= 1
       /\ heirs[t] > 0 => t # 0 /\ t <= signed /\ \A u \in Users : row[u].token # t

Sound ==
  /\ \A u \in Users : RowSound(row[u])
  /\ \A k \in DOMAIN code : CodeSound(row, code[k])
  /\ \A r \in Requests : RequestSound(row, code, request[r])

Inv == TypeOK /\ Counted /\ Sound /\ AddressProven /\ TokensSound

LEMMA Finite ==
  ASSUME TypeOK
  PROVE  /\ IsFiniteSet(Busy) /\ Cardinality(Busy) \in Nat
         /\ Len(code) \in Nat /\ DOMAIN code = 1..Len(code)
         /\ \A k \in DOMAIN code : code[k] \in Code
<1>1. IsFiniteSet(Busy) /\ Cardinality(Busy) \in Nat
  BY RequestAssumption, FS_Subset, FS_CardinalityType DEF Busy
<1>2. Len(code) \in Nat /\ DOMAIN code = 1..Len(code) /\ code \in [1..Len(code) -> Code]
  BY SeqForm DEF TypeOK
<1> QED BY <1>1, <1>2

(* How a request that goes on changes the number of those that are busy.   *)
LEMMA Counting ==
  ASSUME TypeOK, NEW r \in Requests, NEW q, Goes(r, q)
  PROVE  /\ Cardinality(Busy') \in Nat
         /\ request[r].pc = "idle" /\ q.pc # "idle" => Cardinality(Busy') = Cardinality(Busy) + 1
         /\ request[r].pc # "idle" /\ q.pc # "idle" => Cardinality(Busy') = Cardinality(Busy)
         /\ request[r].pc # "idle" /\ q.pc = "idle" => Cardinality(Busy) = Cardinality(Busy') + 1
<1>1. /\ request'[r] = q
      /\ \A s \in Requests \ {r} : request'[s] = request[s]
  BY DEF Goes, TypeOK
<1>2. IsFiniteSet(Busy) /\ IsFiniteSet(Busy') /\ Cardinality(Busy') \in Nat
  <2>1. IsFiniteSet(Busy')
    BY RequestAssumption, FS_Subset DEF Busy
  <2> QED BY <2>1, Finite, FS_CardinalityType
<1>3. CASE request[r].pc = "idle" /\ q.pc # "idle"
  <2>1. Busy' = Busy \cup {r} /\ r \notin Busy
    BY <1>1, <1>3 DEF Busy
  <2> QED BY <1>2, <1>3, <2>1, FS_AddElement
<1>4. CASE request[r].pc # "idle" /\ q.pc # "idle"
  <2>1. Busy' = Busy
    BY <1>1, <1>4 DEF Busy
  <2> QED BY <1>2, <1>4, <2>1
<1>5. CASE request[r].pc # "idle" /\ q.pc = "idle"
  <2>1. Busy' = Busy \ {r} /\ r \in Busy
    BY <1>1, <1>5 DEF Busy
  <2>2. Cardinality(Busy') = Cardinality(Busy) - 1 /\ Cardinality(Busy) \in Nat
    BY <1>2, <2>1, FS_RemoveElement, Finite
  <2> QED BY <1>2, <1>5, <2>2
<1> QED BY <1>2, <1>3, <1>4, <1>5

(***************************************************************************)
(* What lasts while rows go from R to S and codes from C to D.             *)
(***************************************************************************)

Grow(R, S, C, D) ==
  /\ \A u \in Users :
       /\ R[u].status # "none" => S[u].status # "none"
       /\ R[u].verified => S[u].verified
       /\ R[u].status # "none" /\ ~S[u].verified => Meets(S[u], R[u].email)
       /\ R[u].vouched \subseteq S[u].vouched
       /\ R[u].assigned \subseteq S[u].assigned
  /\ DOMAIN C \subseteq DOMAIN D
  /\ \A k \in DOMAIN C : Continues(C[k], D[k])

LEMMA MeetsStays ==
  ASSUME NEW R, NEW S, NEW C, NEW D, Grow(R, S, C, D), NEW u \in Users, NEW e,
         R[u].status # "none", ~S[u].verified, Meets(R[u], e)
  PROVE  Meets(S[u], e)
BY DEF Grow, Meets

LEMMA DeliveredStays ==
  ASSUME NEW R, NEW S, NEW C, NEW D, Grow(R, S, C, D),
         NEW u, NEW kind, NEW e, Delivered(C, u, kind, e)
  PROVE  Delivered(D, u, kind, e)
BY DEF Delivered, Grow, Continues

LEMMA RequestStays ==
  ASSUME NEW R, NEW S, NEW C, NEW D, Grow(R, S, C, D),
         NEW q \in Request, RequestSound(R, C, q)
  PROVE  RequestSound(S, D, q)
<1> USE RequestForms
<1>1. /\ q.pc \notin Anonymous => S[q.user].status # "none"
      /\ q.pc \notin Anonymous /\ ~S[q.user].verified => ~R[q.user].verified
  BY DEF RequestSound, Grow, Anonymous
<1>6. q.pc = "vouch" /\ ~S[q.user].verified => Meets(S[q.user], q.to)
  BY <1>1, MeetsStays DEF RequestSound, Anonymous
<1>2. q.pc \in {"close", "issue"} /\ q.kind = "verify" /\ ~S[q.user].verified =>
        Meets(S[q.user], q.to)
  BY <1>1, MeetsStays DEF RequestSound, Anonymous
<1>3. q.pc = "mark" =>
        /\ q.code \in DOMAIN D /\ D[q.code].user = q.user
        /\ D[q.code].kind = "email" => S[q.user].verified /\ q.to = D[q.code].to
  BY DEF RequestSound, Anonymous, Grow, Continues
<1>4. q.pc = "verified" /\ ~q.seen => \E e \in Emails : Delivered(D, q.user, "verify", e)
  BY DeliveredStays DEF RequestSound, Anonymous
<1>5. q.pc = "address" =>
        S[q.user].verified /\ q.to \in Emails /\ Delivered(D, q.user, "email", q.to)
  <2>1. q.pc = "address" => Delivered(D, q.user, "email", q.to)
    BY DeliveredStays DEF RequestSound, Anonymous
  <2> QED BY <2>1 DEF RequestSound, Anonymous, Grow
<1> QED BY <1>1, <1>2, <1>3, <1>4, <1>5, <1>6 DEF RequestSound, Anonymous

LEMMA CodeStays ==
  ASSUME NEW R, NEW S, NEW C, NEW D, Grow(R, S, C, D),
         NEW k \in DOMAIN C, C[k].user \in Users, CodeSound(R, C[k])
  PROVE  CodeSound(S, D[k])
<1>1. /\ D[k].user = C[k].user /\ D[k].kind = C[k].kind /\ D[k].to = C[k].to
      /\ R[C[k].user].status # "none" /\ S[C[k].user].status # "none"
      /\ ~S[C[k].user].verified => ~R[C[k].user].verified
  BY DEF CodeSound, Grow, Continues
<1> QED BY <1>1, MeetsStays DEF CodeSound

LEMMA SoundStays ==
  ASSUME TypeOK, Sound, Grow(row, row', code, code'),
         \A u \in Users : row'[u] = row[u] \/ RowSound(row'[u]),
         \A k \in DOMAIN code' : k \in DOMAIN code \/ CodeSound(row', code'[k]),
         \A r \in Requests :
           request'[r] = request[r] \/ RequestSound(row', code', request'[r])
  PROVE  Sound'
<1>1. ASSUME NEW u \in Users PROVE RowSound(row'[u])
  BY DEF Sound
<1>2. ASSUME NEW k \in DOMAIN code' PROVE CodeSound(row', code'[k])
  <2>1. CASE k \in DOMAIN code
    <3>1. code[k].user \in Users /\ CodeSound(row, code[k])
      BY <2>1, Finite, CodeForms DEF Sound
    <3> QED BY <2>1, <3>1, CodeStays
  <2> QED BY <2>1
<1>3. ASSUME NEW r \in Requests PROVE RequestSound(row', code', request'[r])
  <2>1. request[r] \in Request /\ RequestSound(row, code, request[r])
    BY DEF TypeOK, Sound
  <2>2. RequestSound(row', code', request[r])
    BY <2>1, RequestStays
  <2> QED BY <2>2
<1> QED BY <1>1, <1>2, <1>3 DEF Sound

LEMMA AddressStays ==
  ASSUME TypeOK, AddressProven, Grow(row, row', code, code'),
         \A u \in Users :
           \/ ~Verified(u)'
           \/ Verified(u) /\ row'[u].email = row[u].email
           \/ row'[u].email \in row'[u].vouched \cup row'[u].assigned
           \/ \E kind \in {"verify", "email"} : Delivered(code', u, kind, row'[u].email)
  PROVE  AddressProven'
<1> SUFFICES ASSUME NEW u \in Users, Verified(u)',
                    row'[u].email \notin row'[u].vouched \cup row'[u].assigned
             PROVE  \E kind \in {"verify", "email"} : Delivered(code', u, kind, row'[u].email)
  BY DEF AddressProven, Proven, Delivered
<1>1. CASE Verified(u) /\ row'[u].email = row[u].email
  <2>1. PICK kind \in {"verify", "email"} : Delivered(code, u, kind, row[u].email)
    <3>1. row[u].email \notin row[u].vouched /\ row[u].email \notin row[u].assigned
      BY <1>1 DEF Grow
    <3> QED BY <1>1, <3>1 DEF AddressProven, Proven, Delivered
  <2>2. Delivered(code', u, kind, row'[u].email)
    BY <1>1, <2>1, DeliveredStays
  <2> QED BY <2>2
<1> QED BY <1>1

LEMMA TokensStay ==
  ASSUME TypeOK, TokensSound, UNCHANGED <<signed, heirs>>,
         \A u \in Users : row'[u].token \in {row[u].token, 0}
  PROVE  TokensSound'
<1>1. signed \in Nat /\ \A u \in Users : row'[u].token = row[u].token \/ row'[u].token = 0
  BY BoundAssumption DEF TypeOK
<1>2. \A u \in Users : row'[u].token <= signed'
  BY <1>1 DEF TokensSound
<1>3. \A u, v \in Users : u # v /\ row'[u].token # 0 => row'[u].token # row'[v].token
  BY <1>1 DEF TokensSound
<1>4. ASSUME NEW t \in Tokens
      PROVE  /\ heirs'[t] <= 1
             /\ heirs'[t] > 0 => /\ t # 0 /\ t <= signed'
                                 /\ \A u \in Users : row'[u].token # t
  BY <1>1 DEF TokensSound
<1> QED BY <1>2, <1>3, <1>4 DEF TokensSound

(***************************************************************************)
(* The steps. A request that begins with nothing changed but itself.       *)
(***************************************************************************)

LEMMA Initial == Init => Inv
<1> SUFFICES ASSUME Init PROVE Inv
  OBVIOUS
<1>1. Busy = {} /\ Cardinality(Busy) = 0 /\ Len(code) = 0 /\ DOMAIN code = {}
  <2>1. Busy = {}
    BY RequestTypes DEF Init, Busy
  <2>2. Len(code) = 0 /\ DOMAIN code = {}
    BY DEF Init
  <2> QED BY <2>1, <2>2, FS_EmptySet
<1>2. TypeOK
  <2>1. row \in [Users -> Row] /\ \A u \in Users : ~Live(u)
    BY BoundAssumption DEF Init, Row, Tokens, Live
  <2>2. code \in Seq(Code)
    BY EmptySeq DEF Init
  <2>3. request \in [Requests -> Request] /\ heirs \in [Tokens -> Nat] /\ jobs \in [Users -> Nat]
    BY RequestTypes DEF Init
  <2>4. /\ Len(code) <= starts /\ starts \in 0..MaxStarts /\ signed \in 0..starts
        /\ link \subseteq Users \X Emails
    BY <1>1, BoundAssumption DEF Init
  <2> QED BY <2>1, <2>2, <2>3, <2>4 DEF TypeOK
<1>3. Counted
  BY <1>1 DEF Init, Counted
<1>4. Sound
  BY <1>1, RequestTypes DEF Init, Sound, RowSound, RequestSound, Anonymous
<1>5. AddressProven
  BY DEF Init, AddressProven, Verified, Live
<1>6. TokensSound
  BY BoundAssumption DEF Init, TokensSound, Tokens
<1> QED BY <1>2, <1>3, <1>4, <1>5, <1>6 DEF Inv

(* Beginning one request adds to what was begun what it adds to the busy.  *)
LEMMA BeginsKeeps ==
  ASSUME Inv, NEW r \in Requests, NEW q \in Request, q.pc # "idle",
         RequestSound(row, code, q), Begins(r, q), jobs' \in [Users -> Nat],
         UNCHANGED <<row, link, code, signed, heirs>>
  PROVE  Inv'
<1> USE DEF Inv
<1>1. /\ request' \in [Requests -> Request]
      /\ \A s \in Requests : request'[s] = request[s] \/ request'[s] = q
  BY DEF Begins, Goes, TypeOK
<1>2. Counted' /\ starts' \in 0..MaxStarts /\ signed' \in 0..starts' /\ Len(code') <= starts'
  <2>1. Cardinality(Busy') = Cardinality(Busy) + 1
    BY Counting DEF Begins, At
  <2> QED BY <2>1, Finite, BoundAssumption DEF Begins, Counted, TypeOK
<1>3. TypeOK'
  BY <1>1, <1>2 DEF TypeOK, Live
<1>4. Grow(row, row', code, code')
  BY Finite, CodeForms DEF Grow, Meets
<1>5. Sound'
  BY <1>1, <1>4, SoundStays
<1>6. AddressProven'
  BY DEF AddressProven, Proven, Verified, Live
<1>7. TokensSound'
  BY TokensStay, <1>3 DEF TypeOK, Row
<1> QED BY <1>2, <1>3, <1>5, <1>6, <1>7

LEMMA StartSteps ==
  ASSUME Inv, NEW r \in Requests,
         \/ \E e \in Emails : RegisterStart(r, e) \/ GoogleSignIn(r, e) \/ Invite(r, e)
         \/ \E u \in Users : \/ Resend(r, u) \/ UpdateUser(r, u)
                             \/ \E e \in Emails : \/ RequestEmailChange(r, u, e)
                                                  \/ ChangeEmail(r, u, e)
                             \/ Login(r, u) \/ RefreshStart(r, u)
                             \/ LogoutStart(r, u) \/ ChangePassword(r, u)
                             \/ \E kind \in Kinds, e \in Emails \cup {NoEmail} :
                                  Consume(r, u, kind, e)
  PROVE  Inv'
<1>0. /\ TypeOK /\ jobs \in [Users -> Nat]
      /\ \A u \in Users : /\ row[u] \in Row /\ row[u].verified \in BOOLEAN
                          /\ row[u].token \in Tokens
                          /\ Live(u) => row[u].email \in Emails /\ row[u].status # "none"
  BY DEF Inv, TypeOK, Row, Live
<1>1. ASSUME NEW e \in Emails, RegisterStart(r, e) PROVE Inv'
  <2> DEFINE q == [pc |-> "insert", to |-> e]
  <2>1. q \in Request /\ q.pc # "idle" /\ RequestSound(row, code, q)
    BY RequestTypes DEF RequestSound, Anonymous
  <2> QED BY <1>0, <1>1, <2>1, BeginsKeeps DEF RegisterStart
<1>2. ASSUME NEW u \in Users, Resend(r, u) PROVE Inv'
  <2> DEFINE q == Issuing("close", u, "verify", row[u].email, TRUE)
  <2>1. q \in Request /\ q.pc # "idle" /\ RequestSound(row, code, q)
    BY <1>0, <1>2, RequestTypes DEF RequestSound, Anonymous, Resend, Issuing, Kinds, Meets
  <2> QED BY <1>0, <1>2, <2>1, BeginsKeeps DEF Resend
<1>3. ASSUME NEW u \in Users, NEW e \in Emails, RequestEmailChange(r, u, e) PROVE Inv'
  <2> DEFINE q == Issuing("close", u, "email", e, FALSE)
  <2>1. q \in Request /\ q.pc # "idle" /\ RequestSound(row, code, q)
    BY <1>0, <1>3, RequestTypes
    DEF RequestSound, Anonymous, RequestEmailChange, Issuing, Kinds, SignedIn, Verified
  <2> QED BY <1>0, <1>3, <2>1, BeginsKeeps DEF RequestEmailChange
<1>4. ASSUME NEW u \in Users, NEW pc \in {"password", "persist", "clear", "secret"}, Live(u),
             Begins(r, [pc |-> pc, user |-> u]), UNCHANGED <<row, link, code, signed, heirs, jobs>>
      PROVE  Inv'
  <2> DEFINE q == [pc |-> pc, user |-> u]
  <2>1. q \in Request /\ q.pc # "idle" /\ RequestSound(row, code, q)
    BY <1>0, <1>4, RequestTypes DEF RequestSound, Anonymous
  <2> QED BY <1>0, <1>4, <2>1, BeginsKeeps
<1>5. ASSUME NEW u \in Users, Login(r, u) \/ LogoutStart(r, u) \/ ChangePassword(r, u) PROVE Inv'
  BY <1>4, <1>5 DEF Login, LogoutStart, ChangePassword, Verified, SignedIn
<1>6. ASSUME NEW u \in Users, RefreshStart(r, u) PROVE Inv'
  <2> DEFINE q == [pc |-> "rotate", user |-> u, old |-> row[u].token]
  <2>1. q \in Request /\ q.pc # "idle" /\ RequestSound(row, code, q)
    BY <1>0, <1>6, RequestTypes DEF RequestSound, Anonymous, RefreshStart
  <2> QED BY <1>0, <1>6, <2>1, BeginsKeeps DEF RefreshStart
<1>7. ASSUME NEW u \in Users, NEW kind \in Kinds, NEW e \in Emails \cup {NoEmail},
             Consume(r, u, kind, e)
      PROVE  Inv'
  <2>1. PICK k \in Latest(u, kind, e) :
          Begins(r, [pc |-> "mark", user |-> u, code |-> k, to |-> e, seen |-> row[u].verified])
    BY <1>7 DEF Consume
  <2> DEFINE q == [pc |-> "mark", user |-> u, code |-> k, to |-> e, seen |-> row[u].verified]
  <2>2. /\ k \in DOMAIN code /\ code[k].user = u /\ code[k].kind = kind
        /\ kind = "email" => code[k].to = e
    BY <2>1 DEF Latest, Matching, OpenCodes
  <2>3. k \in Slips
    <3>1. Len(code) <= MaxStarts
      BY <1>0, Finite, BoundAssumption DEF TypeOK
    <3> QED BY <1>0, <2>2, <3>1, Finite, BoundAssumption DEF Slips
  <2>4. q \in Request /\ q.pc # "idle"
    BY <1>0, <2>3, RequestTypes
  <2>5. RequestSound(row, code, q)
    BY <1>0, <1>7, <2>2 DEF RequestSound, Anonymous, Consume, SignedIn, Verified
  <2> QED BY <1>0, <1>7, <2>1, <2>4, <2>5, BeginsKeeps DEF Consume
<1>8. ASSUME NEW e \in Emails, GoogleSignIn(r, e) PROVE Inv'
  <2> DEFINE q == [pc |-> "lookup", to |-> e]
  <2>1. q \in Request /\ q.pc # "idle" /\ RequestSound(row, code, q)
    BY RequestTypes DEF RequestSound, Anonymous
  <2>2. CASE Begins(r, q)
    BY <1>0, <1>8, <2>1, <2>2, BeginsKeeps DEF GoogleSignIn
  <2> QED BY <1>4, <1>8, <2>2 DEF GoogleSignIn, LinkedTo
<1>9. ASSUME NEW e \in Emails, Invite(r, e) PROVE Inv'
  <2> DEFINE q == [pc |-> "invite", to |-> e]
  <2>1. q \in Request /\ q.pc # "idle" /\ RequestSound(row, code, q)
    BY RequestTypes DEF RequestSound, Anonymous
  <2> QED BY <1>0, <1>9, <2>1, BeginsKeeps DEF Invite
<1>10. ASSUME NEW u \in Users, NEW e \in Emails, NEW ends \in BOOLEAN, Live(u),
              Begins(r, [pc |-> "assign", user |-> u, to |-> e, ends |-> ends]),
              UNCHANGED <<row, link, code, signed, heirs, jobs>>
       PROVE  Inv'
  <2> DEFINE q == [pc |-> "assign", user |-> u, to |-> e, ends |-> ends]
  <2>1. q \in Request /\ q.pc # "idle" /\ RequestSound(row, code, q)
    BY <1>0, <1>10, RequestTypes DEF RequestSound, Anonymous
  <2> QED BY <1>0, <1>10, <2>1, BeginsKeeps
<1>11. ASSUME NEW u \in Users, UpdateUser(r, u) \/ \E e \in Emails : ChangeEmail(r, u, e)
       PROVE  Inv'
  BY <1>4, <1>10, <1>11 DEF UpdateUser, ChangeEmail
<1> QED BY <1>1, <1>2, <1>3, <1>5, <1>6, <1>7, <1>8, <1>9, <1>11

(* Steps that change no row and no code.                                   *)
LEMMA QueueSteps ==
  ASSUME Inv,
         \/ \E r \in Requests, u \in Users : Deliver(r, u)
         \/ \E u \in Users : ForgotPassword(u)
         \/ Crash
  PROVE  Inv'
<1> USE DEF Inv
<1>0. ASSUME UNCHANGED <<row, link, code, signed, heirs>>, jobs' \in [Users -> Nat],
             starts' \in {starts, starts + 1}, starts' <= MaxStarts,
             request' = request \/ request' = [r \in Requests |-> Idle]
      PROVE  Inv'
  <2>1. request' \in [Requests -> Request]
    BY <1>0, RequestTypes DEF TypeOK
  <2>0. /\ starts \in Nat /\ signed \in 0..starts /\ Len(code) \in Nat /\ Len(code) <= starts
        /\ Cardinality(Busy) \in Nat
    BY Finite, BoundAssumption DEF TypeOK
  <2>2. TypeOK'
    <3>1. starts' \in 0..MaxStarts /\ signed' \in 0..starts' /\ Len(code') <= starts'
      BY <1>0, <2>0, BoundAssumption
    <3> QED BY <1>0, <2>1, <3>1 DEF TypeOK, Live
  <2>3. Counted'
    <3>1. CASE request' = request
      <4>1. Cardinality(Busy') = Cardinality(Busy)
        BY <3>1 DEF Busy
      <4> QED BY <1>0, <2>0, <4>1 DEF Counted
    <3>2. CASE request' = [r \in Requests |-> Idle]
      <4>1. Busy' = {}
        BY <3>2, RequestTypes DEF Busy
      <4> QED BY <1>0, <2>0, <4>1, FS_EmptySet DEF Counted
    <3> QED BY <1>0, <3>1, <3>2
  <2>4. Sound'
    <3>1. Grow(row, row', code, code')
      BY <1>0, Finite, CodeForms DEF Grow, Meets
    <3>2. RequestSound(row, code, Idle)
      BY RequestTypes DEF RequestSound, Anonymous
    <3> QED BY <1>0, <3>1, <3>2, SoundStays
  <2>5. AddressProven' /\ TokensSound'
    BY <1>0 DEF AddressProven, Proven, Verified, Live, TokensSound
  <2> QED BY <2>2, <2>3, <2>4, <2>5
<1>1. ASSUME NEW r \in Requests, NEW u \in Users, Deliver(r, u) PROVE Inv'
  <2>1. jobs' \in [Users -> Nat]
    BY <1>1 DEF Deliver, TypeOK
  <2>2. CASE Live(u)
    <3> DEFINE q == Issuing("close", u, "reset", row[u].email, FALSE)
    <3>1. q \in Request /\ q.pc # "idle" /\ RequestSound(row, code, q)
      BY <2>2, RequestTypes DEF RequestSound, Anonymous, Issuing, Kinds, TypeOK, Live
    <3> QED BY <1>1, <2>1, <2>2, <3>1, BeginsKeeps DEF Deliver
  <2>3. starts <= MaxStarts
    BY BoundAssumption DEF TypeOK
  <2> QED BY <1>0, <1>1, <2>1, <2>2, <2>3 DEF Deliver
<1>2. ASSUME NEW u \in Users, ForgotPassword(u) PROVE Inv'
  <2>1. starts \in Nat /\ starts' = starts + 1 /\ starts' <= MaxStarts
    BY <1>2, BoundAssumption DEF ForgotPassword, TypeOK
  <2>2. jobs' \in [Users -> Nat]
    BY <1>2 DEF ForgotPassword, TypeOK
  <2> QED BY <1>0, <1>2, <2>1, <2>2 DEF ForgotPassword
<1>3. ASSUME Crash PROVE Inv'
  <2>1. \A u \in Users : Cardinality(Interrupted(u)) \in Nat
    BY RequestAssumption, FS_Subset, FS_CardinalityType DEF Interrupted
  <2>2. jobs' \in [Users -> Nat]
    <3>1. \A u \in Users : jobs[u] + Cardinality(Interrupted(u)) \in Nat
      BY <2>1 DEF TypeOK
    <3> QED BY <1>3, <3>1 DEF Crash
  <2>3. starts <= MaxStarts
    BY BoundAssumption DEF TypeOK
  <2> QED BY <1>0, <1>3, <2>2, <2>3 DEF Crash
<1> QED BY <1>1, <1>2, <1>3

(***************************************************************************)
(* The steps that change the codes.                                        *)
(***************************************************************************)

LEMMA CodesChange ==
  ASSUME Inv, code' \in Seq(Code), Grow(row, row, code, code'), Counted',
         UNCHANGED <<row, link, signed, heirs, jobs, starts>>,
         \A k \in DOMAIN code' : k \in DOMAIN code \/ CodeSound(row, code'[k]),
         request' \in [Requests -> Request],
         \A r \in Requests : request'[r] = request[r] \/ RequestSound(row, code', request'[r])
  PROVE  Inv'
<1> USE DEF Inv
<1>1. TypeOK'
  <2>1. Len(code') <= starts'
    <3>1. Len(code') \in Nat /\ Cardinality(Busy') \in Nat
      <4>1. IsFiniteSet(Busy')
        BY RequestAssumption, FS_Subset DEF Busy
      <4> QED BY <4>1, FS_CardinalityType, LenProperties
    <3> QED BY <3>1, BoundAssumption DEF Counted, TypeOK
  <2> QED BY <2>1 DEF TypeOK, Live
<1>2. Sound'
  BY SoundStays
<1>3. AddressProven'
  <2>1. \A u \in Users : Verified(u)' => Verified(u) /\ row'[u].email = row[u].email
    BY DEF Verified, Live
  <2> QED BY <2>1, AddressStays
<1>4. TokensSound'
  BY DEF TokensSound
<1> QED BY <1>1, <1>2, <1>3, <1>4

(* What each of the four does to the codes.                                *)
LEMMA CloseOpenEffect ==
  ASSUME TypeOK, NEW r \in Requests, CloseOpen(r)
  PROVE  /\ code' \in Seq(Code) /\ Len(code') = Len(code) /\ DOMAIN code' = DOMAIN code
         /\ \A k \in DOMAIN code :
              code'[k] = IF k \in OpenCodes(request[r].user, request[r].kind)
                           THEN Closed(code[k]) ELSE code[k]
<1> DEFINE K == OpenCodes(request[r].user, request[r].kind)
<1>1. \A k \in 1..Len(code) : Closed(code[k]) \in Code
  BY Finite, CodeForms
<1>2. /\ code' = [k \in DOMAIN code |-> IF k \in K THEN Closed(code[k]) ELSE code[k]]
      /\ code' \in [1..Len(code) -> Code]
  BY <1>1, Finite DEF CloseOpen, Closed
<1>3. code' \in Seq(Code) /\ Len(code') = Len(code)
  <2>1. code' \in Seq(Code)
    BY <1>2, Finite, SeqDef
  <2>2. DOMAIN code' = 1..Len(code') /\ DOMAIN code' = 1..Len(code) /\ Len(code') \in Nat
    BY <1>2, <2>1, LenProperties
  <2>3. \A m, n \in Nat : 1..m = 1..n => m = n
    <3>1. ASSUME NEW m \in Nat, NEW n \in Nat, 1..m = 1..n PROVE m <= n
      <4>1. m = 0 \/ m \in 1..m
        OBVIOUS
      <4> QED BY <3>1, <4>1
    <3>2. ASSUME NEW m \in Nat, NEW n \in Nat, 1..m = 1..n PROVE m = n
      BY <3>1, <3>2
    <3> QED BY <3>2
  <2> QED BY <2>1, <2>2, <2>3, Finite
<1> QED BY <1>2, <1>3, Finite

LEMMA ReplacedEffect ==
  ASSUME TypeOK, NEW k \in DOMAIN code, NEW c \in Code, code' = [code EXCEPT ![k] = c]
  PROVE  /\ code' \in Seq(Code) /\ Len(code') = Len(code) /\ DOMAIN code' = DOMAIN code
         /\ code'[k] = c
         /\ \A j \in DOMAIN code \ {k} : code'[j] = code[j]
<1>1. code \in Seq(Code) /\ k \in 1..Len(code)
  BY Finite DEF TypeOK
<1>2. code' \in Seq(Code) /\ Len(code') = Len(code)
  BY <1>1, ExceptSeq
<1> QED BY <1>2

LEMMA IssueEffect ==
  ASSUME TypeOK, NEW r \in Requests, Issue(r)
  PROVE  /\ code' \in Seq(Code) /\ Len(code') = Len(code) + 1
         /\ DOMAIN code' = DOMAIN code \cup {Len(code) + 1}
         /\ \A k \in DOMAIN code : code'[k] = code[k]
         /\ code'[Len(code) + 1].user = request[r].user
         /\ code'[Len(code) + 1].kind = request[r].kind
         /\ code'[Len(code) + 1].to = request[r].to
         /\ code'[Len(code) + 1].again = request[r].again
         /\ code'[Len(code) + 1].open /\ code'[Len(code) + 1].taken = 0
<1> DEFINE c == [user |-> request[r].user, kind |-> request[r].kind, to |-> request[r].to,
                 again |-> request[r].again, open |-> TRUE, fresh |-> TRUE, taken |-> 0]
<1>1. c \in Code
  <2>1. request[r] \in Request /\ request[r].pc = "issue"
    BY DEF TypeOK, Issue, At
  <2> QED BY <2>1, RequestForms DEF Code, Anonymous
<1>2. code \in Seq(Code) /\ code' = Append(code, c)
  BY DEF TypeOK, Issue
<1>3. /\ c.user = request[r].user /\ c.kind = request[r].kind /\ c.to = request[r].to
      /\ c.again = request[r].again
      /\ c.open /\ c.taken = 0
  OBVIOUS
<1> HIDE DEF c
<1>4. /\ code' \in Seq(Code) /\ Len(code') = Len(code) + 1 /\ Len(code) \in Nat
      /\ \A k \in 1..Len(code) : code'[k] = code[k]
      /\ code'[Len(code) + 1] = c
  BY <1>1, <1>2
<1>5. DOMAIN code' = DOMAIN code \cup {Len(code) + 1}
  BY <1>4, <1>2, LenProperties
<1> QED BY <1>4, <1>5, <1>3, Finite

LEMMA CodeSteps ==
  ASSUME Inv,
         \/ \E r \in Requests : CloseOpen(r) \/ Issue(r) \/ Mark(r)
         \/ \E k \in Slips : Expire(k)
  PROVE  Inv'
<1> USE DEF Inv
<1>0. /\ TypeOK /\ request \in [Requests -> Request]
      /\ \A r \in Requests : request[r] \in Request /\ RequestSound(row, code, request[r])
      /\ Len(code) \in Nat /\ signed \in Nat /\ starts \in Nat /\ Cardinality(Busy) \in Nat
  BY Finite, BoundAssumption DEF TypeOK, Sound
<1>1. ASSUME NEW r \in Requests, CloseOpen(r) PROVE Inv'
  <2> DEFINE q == [request[r] EXCEPT !.pc = "issue"]
  <2>1. Grow(row, row, code, code')
    BY <1>0, <1>1, CloseOpenEffect, Finite, CodeForms DEF Grow, Meets
  <2>2. /\ q \in Request /\ q.pc = "issue" /\ request[r].pc = "close" /\ Goes(r, q)
        /\ q = [pc |-> "issue", user |-> request[r].user, kind |-> request[r].kind,
                to |-> request[r].to, again |-> request[r].again]
    <3>1. request[r].pc = "close" /\ request[r] \in Request /\ Goes(r, q)
      BY <1>0, <1>1 DEF CloseOpen, At
    <3>2. /\ request[r].user \in Users /\ request[r].kind \in Kinds
          /\ request[r].to \in Emails /\ request[r].again \in BOOLEAN
          /\ q = [pc |-> "issue", user |-> request[r].user, kind |-> request[r].kind,
                  to |-> request[r].to, again |-> request[r].again]
      BY <3>1, RequestForms
    <3>3. q \in Request
      BY <3>2, RequestTypes
    <3> QED BY <3>1, <3>2, <3>3
  <2>3. RequestSound(row, code', q)
    BY <1>0, <2>2 DEF RequestSound, Anonymous
  <2>4. Counted'
    <3>1. Cardinality(Busy') = Cardinality(Busy)
      BY <1>0, <2>2, Counting
    <3> QED BY <1>0, <1>1, <3>1, CloseOpenEffect DEF CloseOpen, Counted
  <2>5. request' \in [Requests -> Request] /\ \A s \in Requests : request'[s] \in {request[s], q}
    BY <1>0, <2>2 DEF Goes
  <2> QED BY <1>0, <1>1, <2>1, <2>3, <2>4, <2>5, CloseOpenEffect, CodesChange DEF CloseOpen
<1>2. ASSUME NEW r \in Requests, Issue(r) PROVE Inv'
  <2>1. Grow(row, row, code, code')
    BY <1>0, <1>2, IssueEffect, Finite, CodeForms DEF Grow, Meets
  <2>2. request[r].pc = "issue" /\ Goes(r, Idle)
    BY <1>2 DEF Issue, At, Ends
  <2>3. CodeSound(row, code'[Len(code) + 1])
    <3> DEFINE c == code'[Len(code) + 1]
    <3>1. c.user = request[r].user /\ c.kind = request[r].kind /\ c.to = request[r].to
      BY <1>0, <1>2, IssueEffect
    <3> QED BY <1>0, <2>2, <3>1 DEF RequestSound, Anonymous, CodeSound
  <2>4. Counted'
    <3>1. Cardinality(Busy) = Cardinality(Busy') + 1 /\ Cardinality(Busy') \in Nat
      BY <1>0, <2>2, Counting, RequestTypes
    <3> QED BY <1>0, <1>2, <3>1, IssueEffect DEF Issue, Counted
  <2>5. request' \in [Requests -> Request] /\ \A s \in Requests : request'[s] \in {request[s], Idle}
    BY <1>0, <2>2, RequestTypes DEF Goes
  <2>6. RequestSound(row, code', Idle)
    BY RequestTypes DEF RequestSound, Anonymous
  <2>7. /\ code' \in Seq(Code)
        /\ \A k \in DOMAIN code' : k \in DOMAIN code \/ CodeSound(row, code'[k])
    BY <1>0, <1>2, <2>3, IssueEffect
  <2>8. UNCHANGED <<row, link, signed, heirs, jobs, starts>>
    BY <1>2 DEF Issue
  <2>9. \A s \in Requests : request'[s] = request[s] \/ RequestSound(row, code', request'[s])
    BY <2>5, <2>6
  <2> QED BY <1>0, <2>1, <2>4, <2>5, <2>7, <2>8, <2>9, CodesChange
<1>3. ASSUME NEW r \in Requests, Mark(r) PROVE Inv'
  <2> DEFINE p == request[r]
             k == p.code
             q == [pc |-> After(code[k].kind), user |-> p.user, to |-> p.to, seen |-> p.seen]
  <2>1. /\ p.pc = "mark" /\ p \in Request /\ k \in DOMAIN code /\ code[k].user = p.user
        /\ code[k] \in Code /\ RequestSound(row, code, p)
        /\ p.user \in Users /\ p.to \in Emails \cup {NoEmail} /\ p.seen \in BOOLEAN
    BY <1>0, <1>3, Finite, RequestForms DEF Mark, At, RequestSound, Anonymous
  <2>2. CASE ~Unused(k)
    <3>1. Goes(r, Idle) /\ UNCHANGED <<row, link, code, signed, heirs, jobs, starts>>
      BY <1>3, <2>2 DEF Mark, Ends
    <3>2. Counted'
      <4>1. Cardinality(Busy) = Cardinality(Busy') + 1 /\ Cardinality(Busy') \in Nat
        BY <1>0, <2>1, <3>1, Counting, RequestTypes
      <4> QED BY <1>0, <3>1, <4>1 DEF Counted
    <3>3. request' \in [Requests -> Request] /\ \A s \in Requests : request'[s] \in {request[s], Idle}
      BY <1>0, <3>1, RequestTypes DEF Goes
    <3>4. RequestSound(row, code', Idle)
      BY RequestTypes DEF RequestSound, Anonymous
    <3>5. Grow(row, row, code, code')
      BY <3>1, Finite, CodeForms DEF Grow, Meets
    <3> QED BY <1>0, <3>1, <3>2, <3>3, <3>4, <3>5, CodesChange DEF TypeOK
  <2>3. CASE Unused(k)
    <3>1. Goes(r, q) /\ UNCHANGED <<row, link, signed, heirs, jobs, starts>>
      BY <1>3, <2>3 DEF Mark
    <3>2. code' = [code EXCEPT ![k] = Accepted(code[k])]
      BY <1>3, <2>3 DEF Mark
    <3>3. /\ Accepted(code[k]) \in Code /\ Accepted(code[k]).taken > 0
          /\ Continues(code[k], Accepted(code[k]))
      <4>1. /\ Accepted(code[k]) \in Code /\ Continues(code[k], Accepted(code[k]))
            /\ Accepted(code[k]).taken = code[k].taken + 1 /\ code[k].taken \in Nat
        BY <2>1, CodeForms
      <4>2. \A n \in Nat : n + 1 > 0
        OBVIOUS
      <4> QED BY <4>1, <4>2
    <3>4. /\ code' \in Seq(Code) /\ Len(code') = Len(code) /\ DOMAIN code' = DOMAIN code
          /\ code'[k] = Accepted(code[k]) /\ \A j \in DOMAIN code \ {k} : code'[j] = code[j]
      BY <2>1, <3>2, <3>3, ReplacedEffect
    <3>5. Grow(row, row, code, code')
      BY <3>3, <3>4, Finite, CodeForms DEF Grow, Meets
    <3>6. Delivered(code', p.user, code[k].kind, code[k].to)
      BY <2>1, <3>3, <3>4 DEF Delivered, Continues
    <3>7. q \in Request /\ q.pc # "idle" /\ RequestSound(row, code', q)
      <4>1. code[k].kind \in Kinds /\ code[k].to \in Emails
        BY <2>1, CodeForms
      <4>2. CASE code[k].kind = "verify"
        <5>1. q = [pc |-> "verified", user |-> p.user, to |-> p.to, seen |-> p.seen]
          BY <4>2 DEF After
        <5> QED BY <2>1, <3>6, <4>1, <4>2, <5>1, RequestTypes DEF RequestSound, Anonymous
      <4>3. CASE code[k].kind = "reset"
        <5>1. q = [pc |-> "password", user |-> p.user, to |-> p.to, seen |-> p.seen]
          BY <4>3 DEF After
        <5> QED BY <2>1, <5>1, RequestTypes DEF RequestSound, Anonymous
      <4>4. CASE code[k].kind = "email"
        <5>1. q = [pc |-> "address", user |-> p.user, to |-> p.to, seen |-> p.seen]
          BY <4>4 DEF After
        <5> QED BY <2>1, <3>6, <4>1, <4>4, <5>1, RequestTypes DEF RequestSound, Anonymous
      <4> QED BY <4>1, <4>2, <4>3, <4>4 DEF Kinds
    <3> HIDE DEF q
    <3>8. Counted'
      <4>1. Cardinality(Busy') = Cardinality(Busy)
        BY <1>0, <2>1, <3>1, <3>7, Counting
      <4> QED BY <1>0, <3>1, <3>4, <4>1 DEF Counted
    <3>9. request' \in [Requests -> Request] /\ \A s \in Requests : request'[s] \in {request[s], q}
      BY <1>0, <3>1, <3>7 DEF Goes
    <3> QED BY <1>0, <3>1, <3>4, <3>5, <3>7, <3>8, <3>9, CodesChange
  <2> QED BY <2>2, <2>3
<1>4. ASSUME NEW k \in Slips, Expire(k) PROVE Inv'
  <2>1. /\ k \in DOMAIN code /\ code[k] \in Code /\ code' = [code EXCEPT ![k] = Aged(code[k])]
        /\ UNCHANGED <<row, link, signed, heirs, jobs, request, starts>>
    BY <1>0, <1>4, Finite DEF Expire, Aged
  <2>2. /\ code' \in Seq(Code) /\ Len(code') = Len(code) /\ DOMAIN code' = DOMAIN code
        /\ code'[k] = Aged(code[k]) /\ \A j \in DOMAIN code \ {k} : code'[j] = code[j]
    BY <1>0, <2>1, CodeForms, ReplacedEffect
  <2>3. Grow(row, row, code, code')
    BY <2>1, <2>2, Finite, CodeForms DEF Grow, Meets
  <2>4. Counted'
    BY <2>1, <2>2 DEF Counted, Busy
  <2> QED BY <1>0, <2>1, <2>2, <2>3, <2>4, CodesChange
<1> QED BY <1>1, <1>2, <1>3, <1>4

(***************************************************************************)
(* The steps that change a row of the users.                               *)
(***************************************************************************)

(* What UpdatePassword leaves of a row.                                     *)
Secured(w) == [w EXCEPT !.token = 0, !.password = TRUE]

LEMMA RowForms ==
  ASSUME NEW w \in Row
  PROVE  /\ \A t \in Tokens : [w EXCEPT !.token = t] \in Row
         /\ \A e \in Emails : /\ [w EXCEPT !.email = e, !.token = 0] \in Row
                              /\ Registered(w, e) \in Row
                              /\ Vouched(w, e) \in Row
                              /\ Provisioned(w, e) \in Row
                              /\ Invited(w, e) \in Row
                              /\ Assigned(w, e) \in Row
         /\ \A b \in BOOLEAN : [w EXCEPT !.verified = b] \in Row
         /\ Deleted(w) \in Row /\ Secured(w) \in Row
         /\ Ended(w) \in Row /\ Secret(w) \in Row
         /\ w.token \in Tokens /\ w.verified \in BOOLEAN
         /\ w.status \in {"none", "live", "gone"}
<1>1. 0 \in Tokens
  BY BoundAssumption DEF Tokens
<1>2. \A e \in Emails : Vouched(w, e) \in Row
  <2>1. \A e \in Emails : w.vouched \cup {e} \in SUBSET Emails
    BY DEF Row
  <2>2. \A V \in SUBSET Emails : [w EXCEPT !.verified = TRUE, !.vouched = V] \in Row
    BY DEF Row
  <2> QED BY <2>1, <2>2 DEF Vouched
<1>3. \A e \in Emails : Provisioned(w, e) \in Row
  BY DEF Row, Provisioned
<1>4. \A e \in Emails : Assigned(w, e) \in Row
  <2>1. \A e \in Emails : w.assigned \cup {e} \in SUBSET Emails
    BY DEF Row
  <2>2. \A e \in Emails, V \in SUBSET Emails : [w EXCEPT !.email = e, !.assigned = V] \in Row
    BY DEF Row
  <2> QED BY <2>1, <2>2 DEF Assigned
<1>5. \A e \in Emails : Invited(w, e) \in Row
  BY DEF Row, Registered, Invited
<1>6. Ended(w) \in Row /\ Secret(w) \in Row
  BY <1>1 DEF Row, Ended, Secret
<1> QED BY <1>1, <1>2, <1>3, <1>4, <1>5, <1>6 DEF Row, Deleted, Secured, Registered

LEMMA RowFields ==
  ASSUME NEW w \in Row, NEW e, NEW b
  PROVE  /\ LET x == Registered(w, e)
            IN /\ x.status = "live" /\ x.email = e /\ x.token = w.token
               /\ x.vouched = w.vouched /\ x.assigned = w.assigned
               /\ (x.verified <=> w.verified)
         /\ LET x == [w EXCEPT !.email = e, !.token = 0]
            IN /\ x.status = w.status /\ x.email = e /\ x.token = 0
               /\ x.vouched = w.vouched /\ x.assigned = w.assigned
               /\ (x.verified <=> w.verified)
         /\ LET x == [w EXCEPT !.verified = b]
            IN /\ x.status = w.status /\ x.email = w.email /\ x.token = w.token /\ x.verified = b
               /\ x.vouched = w.vouched /\ x.assigned = w.assigned
         /\ LET x == Deleted(w)
            IN /\ x.status = "gone" /\ x.token = 0 /\ (x.verified <=> w.verified)
               /\ x.vouched = w.vouched /\ x.assigned = w.assigned
         /\ LET x == Secured(w)
            IN /\ x.status = w.status /\ x.email = w.email /\ x.token = 0
               /\ x.vouched = w.vouched /\ x.assigned = w.assigned
               /\ (x.verified <=> w.verified)
         /\ LET x == Vouched(w, e)
            IN /\ x.status = w.status /\ x.email = w.email /\ x.token = w.token /\ x.verified
               /\ x.vouched = w.vouched \cup {e}
               /\ x.assigned = w.assigned
         /\ LET x == Provisioned(w, e)
            IN /\ x.status = "live" /\ x.email = e /\ x.token = w.token /\ x.verified
               /\ x.vouched = {e} /\ x.assigned = w.assigned
BY DEF Row, Registered, Deleted, Secured, Vouched, Provisioned

(* What an administrator leaves of a row.                                  *)
LEMMA GivenFields ==
  ASSUME NEW w \in Row, NEW e
  PROVE  /\ LET x == Invited(w, e)
            IN /\ x.status = "live" /\ x.email = e /\ x.token = w.token /\ x.verified
               /\ x.vouched = w.vouched /\ x.assigned = {e}
         /\ LET x == Assigned(w, e)
            IN /\ x.status = w.status /\ x.email = e /\ x.token = w.token
               /\ x.vouched = w.vouched /\ x.assigned = w.assigned \cup {e}
               /\ (x.verified <=> w.verified)
         /\ LET x == Ended(w)
            IN /\ x.status = w.status /\ x.email = w.email /\ x.token = 0
               /\ x.vouched = w.vouched /\ x.assigned = w.assigned
               /\ (x.verified <=> w.verified)
         /\ LET x == Secret(w)
            IN /\ x.status = w.status /\ x.email = w.email /\ x.token = w.token
               /\ x.vouched = w.vouched /\ x.assigned = w.assigned
               /\ (x.verified <=> w.verified)
BY DEF Row, Registered, Invited, Assigned, Ended, Secret

LEMMA RowsChange ==
  ASSUME Inv, row' \in [Users -> Row], Grow(row, row', code, code),
         \A u \in Users : row'[u] = row[u] \/ RowSound(row'[u]),
         \A u \in Users :
           /\ Live(u)' => row'[u].email \in Emails
           /\ \/ ~Verified(u)'
              \/ Verified(u) /\ row'[u].email = row[u].email
              \/ row'[u].email \in row'[u].vouched \cup row'[u].assigned
              \/ \E kind \in {"verify", "email"} : Delivered(code, u, kind, row'[u].email),
         UNCHANGED <<code, jobs, starts>>,
         signed' \in Nat, Counted', heirs' \in [Tokens -> Nat], TokensSound',
         request' \in [Requests -> Request], link' \subseteq Users \X Emails,
         \A r \in Requests : request'[r] = request[r] \/ RequestSound(row', code, request'[r])
  PROVE  Inv'
<1> USE DEF Inv
<1>1. TypeOK'
  <2>1. Cardinality(Busy') \in Nat
    <3>1. IsFiniteSet(Busy')
      BY RequestAssumption, FS_Subset DEF Busy
    <3> QED BY <3>1, FS_CardinalityType
  <2>2. starts \in Nat /\ starts <= MaxStarts /\ Len(code) <= starts
    BY BoundAssumption DEF TypeOK
  <2>3. signed' \in 0..starts'
    BY <2>1, <2>2 DEF Counted
  <2> QED BY <2>2, <2>3 DEF TypeOK
<1>2. Sound'
  BY SoundStays
<1>3. AddressProven'
  BY AddressStays
<1> QED BY <1>1, <1>2, <1>3

(* How one request's end or going on counts, when no code is added.        *)
LEMMA StillCounted ==
  ASSUME Inv, NEW r \in Requests, NEW q \in Request, Goes(r, q), request[r].pc # "idle",
         UNCHANGED <<code, starts>>,
         signed' = signed \/ (signed' = signed + 1 /\ q.pc = "idle")
  PROVE  /\ Counted' /\ signed' \in Nat
         /\ request' \in [Requests -> Request]
         /\ \A s \in Requests : request'[s] \in {request[s], q}
<1> USE DEF Inv
<1>1. /\ signed \in Nat /\ starts \in Nat /\ Len(code) \in Nat /\ Cardinality(Busy) \in Nat
      /\ Cardinality(Busy') \in Nat
  BY Finite, Counting, BoundAssumption DEF TypeOK
<1>2. CASE q.pc = "idle"
  <2>1. Cardinality(Busy) = Cardinality(Busy') + 1
    BY <1>2, Counting
  <2>2. Counted'
    BY <1>1, <2>1 DEF Counted
  <2> QED BY <1>1, <2>2 DEF Goes, TypeOK
<1>3. CASE q.pc # "idle"
  <2>1. Cardinality(Busy) = Cardinality(Busy')
    BY <1>3, Counting
  <2>2. Counted'
    BY <1>1, <1>3, <2>1 DEF Counted
  <2> QED BY <1>1, <1>3, <2>2 DEF Goes, TypeOK
<1> QED BY <1>2, <1>3

(* A new token is not one that was exchanged, nor one an account honours.  *)
LEMMA TokenSigned ==
  ASSUME Inv, NEW u \in Users, signed' = signed + 1, signed' <= MaxStarts,
         row' = [row EXCEPT ![u].token = signed'],
         \/ heirs' = heirs
         \/ row[u].token # 0 /\ heirs' = [heirs EXCEPT ![row[u].token] = @ + 1]
  PROVE  TokensSound' /\ heirs' \in [Tokens -> Nat] /\ signed' \in Tokens
<1> USE DEF Inv
<1>1. /\ signed \in Nat /\ signed' \in Tokens /\ signed' \in Nat /\ signed' # 0 /\ signed < signed'
  BY BoundAssumption DEF TypeOK, Tokens
<1>2. /\ \A v \in Users : row[v] \in Row /\ row[v].token \in Tokens /\ row[v].token \in Nat
      /\ \A v \in Users : row[v].token <= signed /\ row[v].token # signed'
  <2> SUFFICES ASSUME NEW v \in Users
               PROVE  /\ row[v] \in Row /\ row[v].token \in Tokens
                      /\ row[v].token \in Nat /\ row[v].token <= signed
                      /\ row[v].token # signed'
    OBVIOUS
  <2>1. row[v] \in Row
    BY DEF TypeOK
  <2>2. row[v].token \in Tokens
    BY <2>1 DEF Row
  <2>3. row[v].token \in Nat
    BY <2>2, BoundAssumption DEF Tokens
  <2>4. row[v].token <= signed
    BY DEF TokensSound
  <2> QED BY <1>1, <2>1, <2>2, <2>3, <2>4
<1>3. \A v \in Users : row'[v].token = IF v = u THEN signed' ELSE row[v].token
  BY DEF TypeOK, Row
<1>4. heirs \in [Tokens -> Nat] /\ heirs' \in [Tokens -> Nat]
  <2>1. heirs \in [Tokens -> Nat]
    BY DEF TypeOK
  <2>2. \A t \in Tokens : heirs[t] + 1 \in Nat
    BY <2>1
  <2> QED BY <1>2, <2>1, <2>2
<1>5. ASSUME NEW t \in Tokens
      PROVE  /\ heirs'[t] <= 1
             /\ heirs'[t] > 0 => t # 0 /\ t <= signed' /\ \A v \in Users : row'[v].token # t
  <2>0. /\ heirs[t] \in Nat /\ t \in Nat /\ heirs[t] <= 1
        /\ heirs[t] > 0 => t # 0 /\ t <= signed /\ \A v \in Users : row[v].token # t
    BY <1>4, BoundAssumption DEF TokensSound, Tokens
  <2>1. CASE heirs'[t] = heirs[t]
    BY <1>1, <1>3, <2>0, <2>1
  <2>2. CASE heirs'[t] # heirs[t]
    <3>1. t = row[u].token /\ t # 0 /\ heirs'[t] = heirs[t] + 1
      BY <1>2, <1>4, <2>2
    <3>2. heirs[t] = 0
      BY <2>0, <3>1
    <3>3. \A v \in Users : row'[v].token # t
      BY <1>2, <1>3, <3>1 DEF TokensSound
    <3> QED BY <1>1, <1>2, <2>0, <3>1, <3>2, <3>3
  <2> QED BY <2>1, <2>2
<1>6. \A v, w \in Users : v # w /\ row'[v].token # 0 => row'[v].token # row'[w].token
  BY <1>2, <1>3 DEF TokensSound
<1>7. \A v \in Users : row'[v].token <= signed'
  BY <1>1, <1>2, <1>3
<1> QED BY <1>1, <1>4, <1>5, <1>6, <1>7 DEF TokensSound

LEMMA RowSteps ==
  ASSUME Inv, NEW r \in Requests,
         \/ \E u \in Users : RegisterInsert(r, u)
         \/ MarkVerified(r) \/ UpdatePassword(r) \/ UpdateEmail(r)
         \/ Persist(r) \/ Rotate(r) \/ Logout(r)
  PROVE  Inv'
<1> USE DEF Inv
<1> DEFINE p == request[r]
<1>0. /\ p \in Request /\ RequestSound(row, code, p) /\ Idle \in Request
      /\ row \in [Users -> Row] /\ heirs \in [Tokens -> Nat] /\ signed \in Nat
      /\ link \subseteq Users \X Emails
      /\ \A u \in Users : RowSound(row[u]) /\ row[u] \in Row
      /\ 0 \in Tokens
  BY RequestTypes, BoundAssumption DEF TypeOK, Sound, Tokens
<1>1. \A R : RequestSound(R, code, Idle)
  BY RequestTypes DEF RequestSound, Anonymous
<1>2. Grow(row, row, code, code)
  BY Finite, CodeForms DEF Grow, Meets
(* The row of one account changes, but not its state or its address.       *)
<1>3. ASSUME NEW u \in Users, NEW w \in Row, row' = [row EXCEPT ![u] = w],
             row[u].status # "none", w.status = row[u].status, w.email = row[u].email,
             w.verified <=> row[u].verified, w.vouched = row[u].vouched,
             w.assigned = row[u].assigned
      PROVE  /\ row' \in [Users -> Row] /\ Grow(row, row', code, code)
             /\ \A v \in Users : row'[v] = row[v] \/ RowSound(row'[v])
             /\ \A v \in Users : /\ Live(v)' => row'[v].email \in Emails
                                 /\ ~Verified(v)' \/ (Verified(v) /\ row'[v].email = row[v].email)
  <2>1. /\ row' \in [Users -> Row] /\ row'[u] = w
        /\ \A v \in Users \ {u} : row'[v] = row[v]
    BY <1>0, <1>3
  <2>2. RowSound(w)
    BY <1>0, <1>3 DEF RowSound
  <2>3. Grow(row, row', code, code)
    <3>1. ASSUME NEW v \in Users
          PROVE  /\ row[v].status # "none" => row'[v].status # "none"
                 /\ row[v].verified => row'[v].verified
                 /\ row'[v].email = row[v].email
                 /\ row[v].vouched \subseteq row'[v].vouched
                 /\ row[v].assigned \subseteq row'[v].assigned
      BY <1>3, <2>1
    <3>2. \A k \in DOMAIN code : Continues(code[k], code[k])
      BY <1>2 DEF Grow
    <3> QED BY <3>1, <3>2 DEF Grow, Meets
  <2>4. ASSUME NEW v \in Users
        PROVE  /\ Live(v)' => row'[v].email \in Emails
               /\ ~Verified(v)' \/ (Verified(v) /\ row'[v].email = row[v].email)
    BY <1>3, <2>1 DEF TypeOK, Live, Verified
  <2>5. \A v \in Users : row'[v] = row[v] \/ RowSound(row'[v])
    BY <2>1, <2>2
  <2> QED BY <2>1, <2>3, <2>4, <2>5
(* It ends the request, and the token is none.                             *)
<1>4. ASSUME UpdatePassword(r) \/ Logout(r) PROVE Inv'
  <2>1. /\ p.pc \in {"password", "clear"} /\ p.user \in Users /\ Goes(r, Idle)
        /\ \/ row' = [row EXCEPT ![p.user] = Secured(row[p.user])]
           \/ row' = [row EXCEPT ![p.user] = [row[p.user] EXCEPT !.token = 0]]
        /\ UNCHANGED <<link, code, signed, heirs, jobs, starts>>
    BY <1>0, <1>4, RequestForms DEF UpdatePassword, Logout, At, Anonymous, Ends, Secured
  <2>2. row[p.user].status # "none" /\ row[p.user] \in Row
    BY <1>0, <2>1 DEF RequestSound, Anonymous
  <2> DEFINE u == p.user
             Fits(w) == /\ w \in Row /\ w.token = 0
                        /\ w.status = row[u].status /\ w.email = row[u].email
                        /\ (w.verified <=> row[u].verified)
                        /\ w.vouched = row[u].vouched /\ w.assigned = row[u].assigned
  <2>3. \E w : row' = [row EXCEPT ![u] = w] /\ Fits(w)
    <3>1. Fits(Secured(row[u]))
      <4>1. row[u] \in Row
        BY <2>2
      <4>2. Secured(row[u]) \in Row
        BY <4>1, RowForms
      <4>3. /\ Secured(row[u]).token = 0 /\ Secured(row[u]).status = row[u].status
            /\ Secured(row[u]).email = row[u].email
            /\ (Secured(row[u]).verified <=> row[u].verified)
            /\ Secured(row[u]).vouched = row[u].vouched
            /\ Secured(row[u]).assigned = row[u].assigned
        BY <4>1, RowFields
      <4> QED BY <4>2, <4>3
    <3>2. Fits([row[u] EXCEPT !.token = 0])
      BY <1>0, <2>2, RowForms DEF Row
    <3> HIDE DEF Fits
    <3> QED BY <2>1, <3>1, <3>2
  <2>4. PICK w : row' = [row EXCEPT ![u] = w] /\ Fits(w)
    BY <2>3
  <2>9. \A v \in Users : row'[v].token \in {row[v].token, 0}
    <3>1. w.token = 0
      BY <2>4
    <3> QED BY <1>0, <2>1, <2>4, <3>1
  <2>5. TokensSound'
    BY <2>1, <2>9, TokensStay
  <2>6. /\ Counted' /\ request' \in [Requests -> Request]
        /\ \A s \in Requests : request'[s] \in {request[s], Idle}
    BY <1>0, <2>1, StillCounted
  <2>7. /\ row' \in [Users -> Row] /\ Grow(row, row', code, code)
        /\ \A v \in Users : row'[v] = row[v] \/ RowSound(row'[v])
        /\ \A v \in Users : /\ Live(v)' => row'[v].email \in Emails
                            /\ ~Verified(v)' \/ (Verified(v) /\ row'[v].email = row[v].email)
    BY <1>3, <2>1, <2>2, <2>4
  <2>8. \A s \in Requests : request'[s] = request[s] \/ RequestSound(row', code, request'[s])
    BY <1>1, <2>6
  <2> QED BY <1>0, <2>1, <2>5, <2>6, <2>7, <2>8, RowsChange
<1>5. ASSUME NEW u \in Users, NEW t \in Tokens, u = p.user, p.pc \in {"persist", "rotate"},
             Goes(r, Idle), UNCHANGED <<link, code, jobs, starts>>,
             signed' = signed + 1, row' = [row EXCEPT ![u].token = signed'],
             \/ heirs' = heirs
             \/ row[u].token # 0 /\ heirs' = [heirs EXCEPT ![row[u].token] = @ + 1]
      PROVE  Inv'
  <2>1. row[u].status # "none" /\ row[u] \in Row
    BY <1>0, <1>5 DEF RequestSound, Anonymous
  <2>2. /\ Counted' /\ request' \in [Requests -> Request]
        /\ \A s \in Requests : request'[s] \in {request[s], Idle}
    BY <1>0, <1>5, RequestTypes, StillCounted
  <2>3. signed' <= MaxStarts
    <3>1. Cardinality(Busy) = Cardinality(Busy') + 1 /\ Cardinality(Busy') \in Nat
      BY <1>5, RequestTypes, Counting
    <3> QED BY <1>0, <1>5, <3>1, BoundAssumption DEF Counted, TypeOK
  <2>4. TokensSound' /\ heirs' \in [Tokens -> Nat] /\ signed' \in Tokens
    BY <1>5, <2>3, TokenSigned
  <2>5. /\ row' \in [Users -> Row] /\ Grow(row, row', code, code)
        /\ \A v \in Users : row'[v] = row[v] \/ RowSound(row'[v])
        /\ \A v \in Users : /\ Live(v)' => row'[v].email \in Emails
                            /\ ~Verified(v)' \/ (Verified(v) /\ row'[v].email = row[v].email)
    <3> DEFINE w == [row[u] EXCEPT !.token = signed']
    <3>1. /\ w \in Row /\ w.status = row[u].status /\ w.email = row[u].email
          /\ (w.verified <=> row[u].verified) /\ w.vouched = row[u].vouched
          /\ w.assigned = row[u].assigned
      BY <2>1, <2>4, RowForms DEF Row
    <3>2. row' = [row EXCEPT ![u] = w]
      BY <1>5
    <3> HIDE DEF w
    <3> QED BY <1>3, <1>5, <2>1, <3>1, <3>2
  <2>6. signed' \in Nat
    BY <1>0, <1>5
  <2>7. \A s \in Requests : request'[s] = request[s] \/ RequestSound(row', code, request'[s])
    BY <1>1, <2>2
  <2> QED BY <1>0, <1>5, <2>2, <2>4, <2>5, <2>6, <2>7, RowsChange
<1>6. ASSUME Persist(r) PROVE Inv'
  <2>1. p.pc = "persist" /\ p.user \in Users
    BY <1>0, <1>6, RequestForms DEF Persist, At, Anonymous
  <2> QED BY <1>0, <1>5, <1>6, <2>1 DEF Persist, Ends
<1>7. ASSUME Rotate(r) PROVE Inv'
  <2>1. p.pc = "rotate" /\ p.user \in Users /\ p.old # 0
    BY <1>0, <1>7, RequestForms DEF Rotate, At, Anonymous
  <2>2. CASE StillHonoured(p.user, p.old)
    <3>1. row[p.user].token = p.old
      BY <2>2 DEF StillHonoured
    <3> QED BY <1>0, <1>5, <1>7, <2>1, <2>2, <3>1 DEF Rotate, Ends
  <2>3. CASE ~StillHonoured(p.user, p.old)
    <3>1. Goes(r, Idle) /\ UNCHANGED <<row, link, code, signed, heirs, jobs, starts>>
      BY <1>7, <2>3 DEF Rotate, Ends
    <3>2. /\ Counted' /\ request' \in [Requests -> Request]
          /\ \A s \in Requests : request'[s] \in {request[s], Idle}
      BY <1>0, <2>1, <3>1, StillCounted
    <3> QED BY <1>0, <1>1, <1>2, <3>1, <3>2, CodesChange DEF TypeOK
  <2> QED BY <2>2, <2>3
<1>8. ASSUME NEW u \in Users, RegisterInsert(r, u) PROVE Inv'
  <2> DEFINE e == p.to
             first == Issuing("close", u, "verify", e, FALSE)
  <2>1. /\ p.pc = "insert" /\ e \in Emails /\ row[u].status = "none"
        /\ ~row[u].verified /\ row[u].token = 0
    BY <1>0, <1>8, RequestForms DEF RegisterInsert, At, Anonymous, RowSound
  <2>2. CASE HeldByOther(u, e)
    <3>1. Goes(r, Idle) /\ UNCHANGED <<row, link, code, signed, heirs, jobs, starts>>
      BY <1>8, <2>2 DEF RegisterInsert, Ends
    <3>2. /\ Counted' /\ request' \in [Requests -> Request]
          /\ \A s \in Requests : request'[s] \in {request[s], Idle}
      BY <1>0, <2>1, <3>1, StillCounted
    <3> QED BY <1>0, <1>1, <1>2, <3>1, <3>2, CodesChange DEF TypeOK
  <2>3. CASE ~HeldByOther(u, e)
    <3> DEFINE w == Registered(row[u], e)
    <3>1. /\ row' = [row EXCEPT ![u] = w]
          /\ Goes(r, first) \/ Goes(r, Idle)
          /\ UNCHANGED <<link, code, signed, heirs, jobs, starts>>
      BY <1>8, <2>3 DEF RegisterInsert, Ends
    <3>2. /\ w \in Row /\ w.status = "live" /\ ~w.verified /\ w.token = 0 /\ w.email = e
          /\ w.vouched = row[u].vouched /\ w.assigned = row[u].assigned
      <4>1. row[u] \in Row /\ e \in Emails
        BY <1>0, <2>1
      <4>2. w \in Row
        BY <4>1, RowForms
      <4>3. /\ w.status = "live" /\ w.email = e /\ w.token = row[u].token
            /\ (w.verified <=> row[u].verified) /\ w.vouched = row[u].vouched
            /\ w.assigned = row[u].assigned
        BY <4>1, RowFields
      <4> QED BY <2>1, <4>2, <4>3
    <3>3. /\ row' \in [Users -> Row] /\ row'[u] = w
          /\ \A v \in Users \ {u} : row'[v] = row[v]
      BY <1>0, <3>1, <3>2
    <3>4. Grow(row, row', code, code)
      BY <1>2, <2>1, <3>2, <3>3 DEF Grow
    <3>5. \A v \in Users : row'[v] = row[v] \/ RowSound(row'[v])
      BY <3>2, <3>3 DEF RowSound
    <3>6. \A v \in Users : /\ Live(v)' => row'[v].email \in Emails
                           /\ ~Verified(v)' \/ (Verified(v) /\ row'[v].email = row[v].email)
      BY <2>1, <3>2, <3>3 DEF TypeOK, Live, Verified
    <3>7. first \in Request /\ RequestSound(row', code, first)
      <4>1. first = [pc |-> "close", user |-> u, kind |-> "verify", to |-> e, again |-> FALSE]
        BY DEF Issuing
      <4>2. first \in Request
        BY <2>1, <4>1, RequestTypes DEF Kinds
      <4>3. first.pc = "close" /\ first.user = u /\ first.to = e
        BY DEF Issuing
      <4> QED BY <3>2, <3>3, <4>2, <4>3 DEF RequestSound, Anonymous, Meets
    <3> HIDE DEF first, w
    <3>12. PICK q \in Request : Goes(r, q) /\ RequestSound(row', code, q)
      BY <1>0, <1>1, <3>1, <3>7
    <3>8. /\ Counted' /\ request' \in [Requests -> Request] /\ signed' \in Nat
          /\ \A s \in Requests : request'[s] \in {request[s], q}
      BY <1>0, <2>1, <3>1, <3>12, StillCounted
    <3>9. TokensSound'
      <4>1. \A v \in Users : row'[v].token = row[v].token
        BY <2>1, <3>2, <3>3
      <4> QED BY <3>1, <4>1, TokensStay
    <3>10. \A s \in Requests : request'[s] = request[s] \/ RequestSound(row', code, request'[s])
      BY <3>12, <3>8
    <3>11. /\ heirs' \in [Tokens -> Nat] /\ link' \subseteq Users \X Emails
           /\ UNCHANGED <<code, jobs, starts>>
      BY <1>0, <3>1
    <3> QED BY <3>3, <3>4, <3>5, <3>6, <3>8, <3>9, <3>10, <3>11, RowsChange
  <2> QED BY <2>2, <2>3
<1>9. ASSUME MarkVerified(r) PROVE Inv'
  <2> DEFINE u == p.user
             b == row[u].verified \/ ~p.seen
             w == [row[u] EXCEPT !.verified = b]
  <2>1. /\ p.pc = "verified" /\ u \in Users /\ p.seen \in BOOLEAN /\ row[u] \in Row
        /\ row[u].status # "none"
        /\ ~p.seen => \E e \in Emails : Delivered(code, u, "verify", e)
    BY <1>0, <1>9, RequestForms DEF MarkVerified, At, RequestSound, Anonymous
  <2>2. /\ row' = [row EXCEPT ![u] = w] /\ UNCHANGED <<link, code, signed, heirs, jobs, starts>>
        /\ Goes(r, [pc |-> "persist", user |-> u]) \/ Goes(r, Idle)
    BY <1>9 DEF MarkVerified, Ends
  <2>3. /\ w \in Row /\ w.status = row[u].status /\ w.email = row[u].email
        /\ w.token = row[u].token /\ (w.verified <=> b) /\ w.vouched = row[u].vouched
        /\ w.assigned = row[u].assigned
    <3>1. w \in Row
      BY <2>1, RowForms
    <3>2. /\ w.status = row[u].status /\ w.email = row[u].email /\ w.token = row[u].token
          /\ w.verified = b /\ w.vouched = row[u].vouched /\ w.assigned = row[u].assigned
      BY <2>1, RowFields
    <3> QED BY <3>1, <3>2
  <2> HIDE DEF w
  <2>4. /\ row' \in [Users -> Row] /\ row'[u] = w
        /\ \A v \in Users \ {u} : row'[v] = row[v]
    BY <1>0, <2>1, <2>2, <2>3
  <2>5. Grow(row, row', code, code)
    BY <1>2, <2>3, <2>4 DEF Grow, Meets
  <2>6. \A v \in Users : row'[v] = row[v] \/ RowSound(row'[v])
    <3>1. RowSound(w)
      BY <1>0, <2>1, <2>3 DEF RowSound
    <3> QED BY <2>4, <3>1
  <2>7. ASSUME NEW v \in Users
        PROVE  /\ Live(v)' => row'[v].email \in Emails
               /\ \/ ~Verified(v)'
                  \/ Verified(v) /\ row'[v].email = row[v].email
                  \/ row'[v].email \in row'[v].assigned
                  \/ \E kind \in {"verify", "email"} : Delivered(code, v, kind, row'[v].email)
    <3>1. Live(v)' => row'[v].email \in Emails
      BY <2>3, <2>4 DEF TypeOK, Live
    <3>2. CASE v = u /\ ~row[u].verified /\ ~p.seen
      <4>1. PICK k \in DOMAIN code : code[k].user = u /\ code[k].kind = "verify" /\ code[k].taken > 0
        BY <2>1, <3>2 DEF Delivered
      <4>2. code[k].to = row[u].email \/ row[u].email \in row[u].assigned
        BY <3>2, <4>1 DEF Sound, CodeSound, Meets
      <4>3. code[k].to = row[u].email => Delivered(code, v, "verify", row'[v].email)
        BY <2>3, <2>4, <3>2, <4>1 DEF Delivered
      <4>4. row[u].email \in row[u].assigned => row'[v].email \in row'[v].assigned
        BY <2>3, <2>4, <3>2
      <4> QED BY <3>1, <4>2, <4>3, <4>4
    <3>3. CASE ~(v = u /\ ~row[u].verified /\ ~p.seen)
      BY <2>3, <2>4, <3>1, <3>3 DEF Verified, Live
    <3> QED BY <3>2, <3>3
  <2>8. TokensSound'
    BY <2>2, <2>3, <2>4, TokensStay
  <2>9. PICK q \in {[pc |-> "persist", user |-> u], Idle} : Goes(r, q)
    BY <2>2
  <2>10. q \in Request /\ RequestSound(row', code, q)
    <3>1. CASE q = [pc |-> "persist", user |-> u]
      <4>1. q \in Request
        BY <2>1, <3>1, RequestTypes
      <4>2. q.pc = "persist" /\ q.user = u
        BY <3>1
      <4> QED BY <2>1, <2>3, <2>4, <4>1, <4>2 DEF RequestSound, Anonymous
    <3>2. CASE q = Idle
      BY <1>0, <1>1, <3>2
    <3> QED BY <2>9, <3>1, <3>2
  <2>11. /\ Counted' /\ request' \in [Requests -> Request] /\ signed' \in Nat
         /\ \A s \in Requests : request'[s] \in {request[s], q}
    BY <1>0, <2>1, <2>2, <2>9, <2>10, StillCounted
  <2>12. \A s \in Requests : request'[s] = request[s] \/ RequestSound(row', code, request'[s])
    BY <2>10, <2>11
  <2>13. /\ heirs' \in [Tokens -> Nat] /\ link' \subseteq Users \X Emails
         /\ UNCHANGED <<code, jobs, starts>>
    BY <1>0, <2>2
  <2> QED BY <2>4, <2>5, <2>6, <2>7, <2>8, <2>11, <2>12, <2>13, RowsChange
<1>10. ASSUME UpdateEmail(r) PROVE Inv'
  <2> DEFINE u == p.user
             e == p.to
             w == [row[u] EXCEPT !.email = e, !.token = 0]
  <2>1. /\ p.pc = "address" /\ u \in Users /\ e \in Emails /\ row[u] \in Row
        /\ row[u].verified /\ row[u].status # "none" /\ Delivered(code, u, "email", e)
    BY <1>0, <1>10, RequestForms DEF UpdateEmail, At, RequestSound, Anonymous
  <2>2. /\ row' = row \/ row' = [row EXCEPT ![u] = w]
        /\ Goes(r, Idle) /\ UNCHANGED <<link, code, signed, heirs, jobs, starts>>
    BY <1>10 DEF UpdateEmail, Ends
  <2>3. /\ w \in Row /\ w.status = row[u].status /\ w.email = e
        /\ w.token = 0 /\ w.verified /\ w.vouched = row[u].vouched
        /\ w.assigned = row[u].assigned
    <3>1. w \in Row
      BY <2>1, RowForms
    <3>2. /\ w.status = row[u].status /\ w.email = e /\ w.token = 0
          /\ (w.verified <=> row[u].verified) /\ w.vouched = row[u].vouched
          /\ w.assigned = row[u].assigned
      BY <2>1, RowFields
    <3> QED BY <2>1, <3>1, <3>2
  <2> HIDE DEF w
  <2>4. /\ row' \in [Users -> Row] /\ row'[u] \in {row[u], w}
        /\ \A v \in Users \ {u} : row'[v] = row[v]
    BY <1>0, <2>2, <2>3
  <2>5. Grow(row, row', code, code)
    BY <1>2, <2>1, <2>3, <2>4 DEF Grow, Meets
  <2>6. \A v \in Users : row'[v] = row[v] \/ RowSound(row'[v])
    <3>1. RowSound(w)
      BY <2>1, <2>3 DEF RowSound
    <3> QED BY <2>4, <3>1
  <2>7. ASSUME NEW v \in Users
        PROVE  /\ Live(v)' => row'[v].email \in Emails
               /\ \/ ~Verified(v)'
                  \/ Verified(v) /\ row'[v].email = row[v].email
                  \/ \E kind \in {"verify", "email"} : Delivered(code, v, kind, row'[v].email)
    <3>1. CASE row'[v] = row[v]
      BY <3>1 DEF TypeOK, Live, Verified
    <3>2. CASE row'[v] # row[v]
      <4>1. v = u /\ row'[v].email = e
        BY <2>3, <2>4, <3>2
      <4> QED BY <2>1, <4>1
    <3> QED BY <3>1, <3>2
  <2>8. TokensSound'
    BY <2>2, <2>3, <2>4, TokensStay
  <2>9. /\ Counted' /\ request' \in [Requests -> Request] /\ signed' \in Nat
        /\ \A s \in Requests : request'[s] \in {request[s], Idle}
    BY <1>0, <2>1, <2>2, StillCounted
  <2>10. \A s \in Requests : request'[s] = request[s] \/ RequestSound(row', code, request'[s])
    BY <1>1, <2>9
  <2>11. /\ heirs' \in [Tokens -> Nat] /\ link' \subseteq Users \X Emails
         /\ UNCHANGED <<code, jobs, starts>>
    BY <1>0, <2>2
  <2> QED BY <2>4, <2>5, <2>6, <2>7, <2>8, <2>9, <2>10, <2>11, RowsChange
<1> QED BY <1>4, <1>6, <1>7, <1>8, <1>9, <1>10

(***************************************************************************)
(* Signing in through Google.                                              *)
(***************************************************************************)

LEMMA GoogleSteps ==
  ASSUME Inv, NEW r \in Requests,
         GoogleLookup(r) \/ Vouch(r) \/ Link(r) \/ \E u \in Users : Provision(r, u)
  PROVE  Inv'
<1> USE DEF Inv
<1> DEFINE p == request[r]
<1>0. /\ p \in Request /\ RequestSound(row, code, p) /\ Idle \in Request
      /\ row \in [Users -> Row] /\ heirs \in [Tokens -> Nat] /\ signed \in Nat
      /\ link \subseteq Users \X Emails
      /\ \A u \in Users : RowSound(row[u]) /\ row[u] \in Row
  BY RequestTypes, BoundAssumption DEF TypeOK, Sound
<1>1. \A R : RequestSound(R, code, Idle)
  BY RequestTypes DEF RequestSound, Anonymous
<1>2. Grow(row, row, code, code)
  BY Finite, CodeForms DEF Grow, Meets
(* The request goes on, and no row changes.                                *)
<1>3. ASSUME NEW q \in Request, Goes(r, q), p.pc # "idle", RequestSound(row, code, q),
             UNCHANGED <<row, code, signed, heirs, jobs, starts>>,
             link' \subseteq Users \X Emails
      PROVE  Inv'
  <2>1. /\ Counted' /\ request' \in [Requests -> Request] /\ signed' \in Nat
        /\ \A s \in Requests : request'[s] \in {request[s], q}
    BY <1>0, <1>3, StillCounted
  <2>2. \A u \in Users : /\ Live(u)' => row'[u].email \in Emails
                         /\ ~Verified(u)' \/ (Verified(u) /\ row'[u].email = row[u].email)
    BY <1>3 DEF TypeOK, Live, Verified
  <2>3. TokensSound'
    BY <1>3 DEF TokensSound
  <2>4. \A s \in Requests : request'[s] = request[s] \/ RequestSound(row', code, request'[s])
    BY <1>3, <2>1
  <2> QED BY <1>0, <1>2, <1>3, <2>1, <2>2, <2>3, <2>4, RowsChange
(* The request goes on, and one account is verified where it stands.       *)
<1>4. ASSUME NEW u \in Users, NEW w \in Row, NEW q \in Request, Goes(r, q), p.pc # "idle",
             row' = [row EXCEPT ![u] = w], RequestSound(row', code, q),
             UNCHANGED <<code, signed, heirs, jobs, starts>>,
             link' \subseteq Users \X Emails,
             w.verified, w.status # "none", w.token = row[u].token,
             row[u].vouched \subseteq w.vouched, row[u].assigned \subseteq w.assigned,
             w.status = "live" => /\ w.email \in Emails
                                  /\ \/ Verified(u) /\ w.email = row[u].email
                                     \/ w.email \in w.vouched \cup w.assigned
      PROVE  Inv'
  <2>1. /\ row' \in [Users -> Row] /\ row'[u] = w
        /\ \A v \in Users \ {u} : row'[v] = row[v]
    BY <1>0, <1>4
  <2>2. Grow(row, row', code, code)
    <3>1. ASSUME NEW v \in Users
          PROVE  /\ row[v].status # "none" => row'[v].status # "none"
                 /\ row[v].verified => row'[v].verified
                 /\ row[v].status # "none" /\ ~row'[v].verified => row'[v].email = row[v].email
                 /\ row[v].vouched \subseteq row'[v].vouched
                 /\ row[v].assigned \subseteq row'[v].assigned
      BY <1>4, <2>1
    <3>2. \A k \in DOMAIN code : Continues(code[k], code[k])
      BY <1>2 DEF Grow
    <3> QED BY <3>1, <3>2 DEF Grow, Meets
  <2>3. \A v \in Users : row'[v] = row[v] \/ RowSound(row'[v])
    BY <1>4, <2>1 DEF RowSound
  <2>4. ASSUME NEW v \in Users
        PROVE  /\ Live(v)' => row'[v].email \in Emails
               /\ \/ ~Verified(v)'
                  \/ Verified(v) /\ row'[v].email = row[v].email
                  \/ row'[v].email \in row'[v].vouched \cup row'[v].assigned
    BY <1>4, <2>1 DEF TypeOK, Live, Verified
  <2>5. TokensSound'
    <3>1. \A v \in Users : row'[v].token = row[v].token
      BY <1>4, <2>1
    <3> QED BY <1>4, <3>1, TokensStay
  <2>6. /\ Counted' /\ request' \in [Requests -> Request] /\ signed' \in Nat
        /\ \A s \in Requests : request'[s] \in {request[s], q}
    BY <1>0, <1>4, StillCounted
  <2>7. \A s \in Requests : request'[s] = request[s] \/ RequestSound(row', code, request'[s])
    BY <1>4, <2>6
  <2>8. heirs' \in [Tokens -> Nat]
    BY <1>0, <1>4
  <2> QED BY <1>4, <2>1, <2>2, <2>3, <2>4, <2>5, <2>6, <2>7, <2>8, RowsChange
<1>5. ASSUME GoogleLookup(r) PROVE Inv'
  <2>1. p.pc \in {"lookup", "raced"} /\ p.to \in Emails
    BY <1>0, <1>5, RequestForms DEF GoogleLookup, At
  <2>2. UNCHANGED <<row, link, code, signed, heirs, jobs, starts>>
    BY <1>5 DEF GoogleLookup
  <2>3. ASSUME NEW u \in Users, NEW pc \in {"vouch", "link"}, Live(u), row[u].email = p.to,
               Goes(r, [pc |-> pc, user |-> u, to |-> p.to])
        PROVE  Inv'
    <3> DEFINE q == [pc |-> pc, user |-> u, to |-> p.to]
    <3>1. q \in Request /\ RequestSound(row, code, q)
      BY <2>1, <2>3, RequestTypes DEF RequestSound, Live, Anonymous, Meets
    <3> QED BY <1>0, <1>3, <2>1, <2>2, <2>3, <3>1
  <2>4. CASE Goes(r, [pc |-> "provision", to |-> p.to])
    <3> DEFINE q == [pc |-> "provision", to |-> p.to]
    <3>1. q \in Request /\ RequestSound(row, code, q)
      BY <2>1, RequestTypes DEF RequestSound, Anonymous
    <3> QED BY <1>0, <1>3, <2>1, <2>2, <2>4, <3>1
  <2>5. CASE Goes(r, Idle)
    BY <1>0, <1>1, <1>3, <2>1, <2>2, <2>5
  <2> QED BY <1>5, <2>3, <2>4, <2>5 DEF GoogleLookup, Ends
<1>6. ASSUME Link(r) PROVE Inv'
  <2>1. p.pc = "link" /\ p.user \in Users /\ p.to \in Emails /\ row[p.user].status # "none"
    BY <1>0, <1>6, RequestForms DEF Link, At, RequestSound, Anonymous
  <2> DEFINE q == [pc |-> "persist", user |-> p.user]
  <2>2. /\ UNCHANGED <<row, code, signed, heirs, jobs, starts>>
        /\ Goes(r, q) \/ Goes(r, Idle)
        /\ link' = link \/ link' = link \cup {<<p.user, p.to>>}
    BY <1>6 DEF Link, Ends
  <2>3. link' \subseteq Users \X Emails
    BY <1>0, <2>1, <2>2
  <2>4. q \in Request /\ RequestSound(row, code, q)
    BY <2>1, RequestTypes DEF RequestSound, Anonymous
  <2>5. p.pc # "idle" /\ RequestSound(row, code, Idle)
    BY <1>1, <2>1
  <2> HIDE DEF q
  <2>6. CASE Goes(r, q)
    BY <1>3, <2>2, <2>3, <2>4, <2>5, <2>6
  <2>7. CASE Goes(r, Idle)
    BY <1>0, <1>3, <2>2, <2>3, <2>5, <2>7
  <2> QED BY <2>2, <2>6, <2>7
<1>7. ASSUME Vouch(r) PROVE Inv'
  <2> DEFINE u == p.user
             e == p.to
             w == Vouched(row[u], e)
             q == [p EXCEPT !.pc = "link"]
  <2>1. /\ p.pc = "vouch" /\ u \in Users /\ e \in Emails /\ row[u].status # "none"
        /\ row[u].verified \/ e = row[u].email \/ row[u].email \in row[u].assigned
        /\ q = [pc |-> "link", user |-> u, to |-> e]
    BY <1>0, <1>7, RequestForms DEF Vouch, At, RequestSound, Anonymous, Meets
  <2>2. /\ row' = [row EXCEPT ![u] = w]
        /\ Goes(r, q) \/ Goes(r, Idle)
        /\ UNCHANGED <<link, code, signed, heirs, jobs, starts>>
    BY <1>7 DEF Vouch, Ends
  <2>3. /\ w \in Row /\ w.verified /\ w.status = row[u].status /\ w.token = row[u].token
        /\ w.email = row[u].email /\ w.vouched = row[u].vouched \cup {e}
        /\ w.assigned = row[u].assigned
    <3>1. row[u] \in Row
      BY <1>0, <2>1
    <3>2. w \in Row
      BY <2>1, <3>1, RowForms
    <3>3. /\ w.verified /\ w.status = row[u].status /\ w.token = row[u].token
          /\ w.email = row[u].email /\ w.vouched = row[u].vouched \cup {e}
          /\ w.assigned = row[u].assigned
      BY <3>1, RowFields
    <3> QED BY <3>2, <3>3
  <2>4. w.status = "live" => /\ w.email \in Emails
                             /\ \/ Verified(u) /\ w.email = row[u].email
                                \/ w.email \in w.vouched \cup w.assigned
    BY <2>1, <2>3 DEF TypeOK, Live, Verified
  <2>5. q \in Request /\ RequestSound(row', code, q)
    <3>1. row'[u].status # "none"
      <4>1. row'[u] = w
        BY <1>0, <2>1, <2>2
      <4> QED BY <2>1, <2>3, <4>1
    <3>2. q \in Request /\ q.pc = "link" /\ q.user = u
      BY <2>1, RequestTypes
    <3> QED BY <3>1, <3>2 DEF RequestSound, Anonymous
  <2>6. /\ p.pc # "idle" /\ RequestSound(row', code, Idle) /\ w.status # "none"
        /\ row[u].vouched \subseteq w.vouched /\ row[u].assigned \subseteq w.assigned
        /\ link' \subseteq Users \X Emails
    BY <1>0, <1>1, <2>1, <2>2, <2>3
  <2> HIDE DEF w, q
  <2>7. CASE Goes(r, q)
    BY <1>4, <2>1, <2>2, <2>3, <2>4, <2>5, <2>6, <2>7
  <2>8. CASE Goes(r, Idle)
    BY <1>0, <1>4, <2>1, <2>2, <2>3, <2>4, <2>6, <2>8
  <2> QED BY <2>2, <2>7, <2>8
<1>8. ASSUME NEW u \in Users, Provision(r, u) PROVE Inv'
  <2> DEFINE e == p.to
             w == Provisioned(row[u], e)
             q == [pc |-> "persist", user |-> u]
             again == [pc |-> "raced", to |-> e]
  <2>1. /\ p.pc = "provision" /\ e \in Emails /\ row[u].status = "none"
        /\ row[u].vouched = {}
    BY <1>0, <1>8, RequestForms DEF Provision, At, RowSound
  <2>2. UNCHANGED <<code, signed, heirs, jobs, starts>>
    BY <1>8 DEF Provision
  <2>3. CASE HeldByOther(u, e) \/ LinkedTo(e) # {}
    <3>1. Goes(r, again) /\ UNCHANGED <<row, link>>
      BY <1>8, <2>3 DEF Provision
    <3>2. again \in Request /\ RequestSound(row, code, again)
      BY <2>1, RequestTypes DEF RequestSound, Anonymous
    <3> QED BY <1>0, <1>3, <2>1, <2>2, <3>1, <3>2
  <2>4. CASE ~(HeldByOther(u, e) \/ LinkedTo(e) # {})
    <3>1. row' = [row EXCEPT ![u] = w] /\ link' = link \cup {<<u, e>>} /\ Goes(r, q)
      BY <1>8, <2>4 DEF Provision
    <3>2. /\ w \in Row /\ w.verified /\ w.status = "live" /\ w.token = row[u].token
          /\ w.email = e /\ w.vouched = {e} /\ w.assigned = row[u].assigned
      <4>1. row[u] \in Row
        BY <1>0
      <4>2. w \in Row
        BY <2>1, <4>1, RowForms
      <4>3. /\ w.verified /\ w.status = "live" /\ w.token = row[u].token
            /\ w.email = e /\ w.vouched = {e} /\ w.assigned = row[u].assigned
        BY <4>1, RowFields
      <4> QED BY <4>2, <4>3
    <3>3. q \in Request /\ RequestSound(row', code, q)
      <4>1. row'[u].status # "none"
        BY <1>0, <3>1, <3>2
      <4>2. q \in Request /\ q.pc = "persist" /\ q.user = u
        BY RequestTypes
      <4> QED BY <4>1, <4>2 DEF RequestSound, Anonymous
    <3>4. link' \subseteq Users \X Emails
      BY <1>0, <2>1, <3>1
    <3> HIDE DEF w, q
    <3> QED BY <1>0, <1>4, <2>1, <2>2, <3>1, <3>2, <3>3, <3>4
  <2> QED BY <2>3, <2>4
<1> QED BY <1>5, <1>6, <1>7, <1>8

LEMMA Deletion ==
  ASSUME Inv, NEW u \in Users, DeleteAccount(u)
  PROVE  Inv'
<1> USE DEF Inv
<1> DEFINE w == Deleted(row[u])
<1>1. /\ row' = [row EXCEPT ![u] = w] /\ UNCHANGED <<link, code, signed, heirs, jobs, request, starts>>
      /\ row[u].verified /\ row \in [Users -> Row] /\ row[u] \in Row
      /\ link \subseteq Users \X Emails
  BY DEF DeleteAccount, SignedIn, Verified, TypeOK
<1>2. /\ w \in Row /\ w.status = "gone" /\ w.token = 0 /\ w.verified
      /\ w.vouched = row[u].vouched /\ w.assigned = row[u].assigned
  BY <1>1, RowForms, RowFields
<1> HIDE DEF w
<1>3. /\ row' \in [Users -> Row] /\ row'[u] = w /\ \A v \in Users \ {u} : row'[v] = row[v]
  BY <1>1, <1>2
<1>4. Grow(row, row', code, code)
  <2>1. \A k \in DOMAIN code : Continues(code[k], code[k])
    BY Finite, CodeForms
  <2> QED BY <1>2, <1>3, <2>1 DEF Grow, Meets
<1>5. \A v \in Users : row'[v] = row[v] \/ RowSound(row'[v])
  BY <1>2, <1>3 DEF RowSound
<1>6. ASSUME NEW v \in Users
      PROVE  /\ Live(v)' => row'[v].email \in Emails
             /\ ~Verified(v)' \/ (Verified(v) /\ row'[v].email = row[v].email)
  BY <1>2, <1>3 DEF TypeOK, Live, Verified
<1>7. TokensSound'
  BY <1>1, <1>2, <1>3, TokensStay
<1>8. Counted' /\ signed' \in Nat /\ heirs' \in [Tokens -> Nat] /\ request' \in [Requests -> Request]
  BY <1>1, BoundAssumption DEF Counted, Busy, TypeOK
<1> QED BY <1>1, <1>3, <1>4, <1>5, <1>6, <1>7, <1>8, RowsChange

(***************************************************************************)
(* What administrators do: a row keeps its address, or is given one.       *)
(***************************************************************************)

LEMMA AdminSteps ==
  ASSUME Inv, NEW r \in Requests,
         Assign(r) \/ SetPassword(r) \/ \E u \in Users : InviteInsert(r, u)
  PROVE  Inv'
<1> USE DEF Inv
<1> DEFINE p == request[r]
<1>0. /\ p \in Request /\ RequestSound(row, code, p) /\ Idle \in Request
      /\ row \in [Users -> Row] /\ heirs \in [Tokens -> Nat] /\ signed \in Nat
      /\ link \subseteq Users \X Emails
      /\ \A u \in Users : /\ RowSound(row[u]) /\ row[u] \in Row
                          /\ Live(u) => row[u].email \in Emails
  BY RequestTypes, BoundAssumption DEF TypeOK, Sound
<1>1. \A R : RequestSound(R, code, Idle)
  BY RequestTypes DEF RequestSound, Anonymous
<1>2. ASSUME NEW u \in Users, NEW w \in Row, row' = [row EXCEPT ![u] = w],
             Goes(r, Idle), p.pc # "idle", UNCHANGED <<link, code, signed, heirs, jobs, starts>>,
             RowSound(w), w.status # "none", w.token \in {row[u].token, 0},
             row[u].verified => w.verified,
             row[u].vouched \subseteq w.vouched, row[u].assigned \subseteq w.assigned,
             row[u].status = "none" \/ w.status = row[u].status,
             w.email \in Emails \/ (row[u].status # "none" /\ w.email = row[u].email),
             \/ w.email = row[u].email /\ row[u].status # "none"
                /\ (w.verified <=> row[u].verified)
             \/ w.email \in w.assigned
      PROVE  Inv'
  <2>1. /\ row' \in [Users -> Row] /\ row'[u] = w
        /\ \A v \in Users \ {u} : row'[v] = row[v]
    BY <1>0, <1>2
  <2>2. Grow(row, row', code, code)
    <3>1. \A k \in DOMAIN code : Continues(code[k], code[k])
      BY Finite, CodeForms
    <3>2. ASSUME NEW v \in Users
          PROVE  /\ row[v].status # "none" => row'[v].status # "none"
                 /\ row[v].verified => row'[v].verified
                 /\ Meets(row'[v], row[v].email)
                 /\ row[v].vouched \subseteq row'[v].vouched
                 /\ row[v].assigned \subseteq row'[v].assigned
      BY <1>2, <2>1 DEF Meets
    <3> QED BY <3>1, <3>2 DEF Grow
  <2>3. \A v \in Users : row'[v] = row[v] \/ RowSound(row'[v])
    BY <1>2, <2>1
  <2>4. ASSUME NEW v \in Users
        PROVE  /\ Live(v)' => row'[v].email \in Emails
               /\ \/ ~Verified(v)'
                  \/ Verified(v) /\ row'[v].email = row[v].email
                  \/ row'[v].email \in row'[v].vouched \cup row'[v].assigned
    <3>1. CASE v = u
      BY <1>0, <1>2, <2>1, <3>1 DEF Live, Verified
    <3>2. CASE v # u
      BY <1>0, <2>1, <3>2 DEF Live, Verified
    <3> QED BY <3>1, <3>2
  <2>5. TokensSound'
    <3>1. \A v \in Users : row'[v].token \in {row[v].token, 0}
      BY <1>2, <2>1
    <3> QED BY <1>2, <3>1, TokensStay
  <2>6. /\ Counted' /\ request' \in [Requests -> Request] /\ signed' \in Nat
        /\ \A s \in Requests : request'[s] \in {request[s], Idle}
    BY <1>0, <1>2, StillCounted
  <2>7. \A s \in Requests : request'[s] = request[s] \/ RequestSound(row', code, request'[s])
    BY <1>1, <2>6
  <2>8. heirs' \in [Tokens -> Nat] /\ link' \subseteq Users \X Emails
    BY <1>0, <1>2
  <2> QED BY <1>2, <2>1, <2>2, <2>3, <2>4, <2>5, <2>6, <2>7, <2>8, RowsChange
(* Nothing of the account is asked but that it exists.                     *)
<1>3. ASSUME NEW u \in Users, NEW w \in Row, row' = [row EXCEPT ![u] = w],
             Goes(r, Idle), p.pc # "idle", UNCHANGED <<link, code, signed, heirs, jobs, starts>>,
             row[u].status # "none", w.status = row[u].status, w.token \in {row[u].token, 0},
             w.verified <=> row[u].verified, w.vouched = row[u].vouched,
             row[u].assigned \subseteq w.assigned,
             w.email = row[u].email \/ (w.email \in Emails /\ w.email \in w.assigned)
      PROVE  Inv'
  <2>1. RowSound(w)
    BY <1>0, <1>3 DEF RowSound
  <2> QED BY <1>2, <1>3, <2>1
<1>4. ASSUME SetPassword(r) PROVE Inv'
  <2> DEFINE u == p.user
             w == Secret(row[u])
  <2>1. /\ p.pc = "secret" /\ u \in Users /\ row[u] \in Row /\ row[u].status # "none"
    BY <1>0, <1>4, RequestForms DEF SetPassword, At, RequestSound, Anonymous
  <2>2. /\ row' = [row EXCEPT ![u] = w] /\ Goes(r, Idle)
        /\ UNCHANGED <<link, code, signed, heirs, jobs, starts>>
    BY <1>4 DEF SetPassword, Ends
  <2>3. w \in Row
    BY <2>1, RowForms
  <2>4. /\ w.status = row[u].status /\ w.email = row[u].email /\ w.token = row[u].token
        /\ w.vouched = row[u].vouched /\ w.assigned = row[u].assigned
        /\ (w.verified <=> row[u].verified)
    BY <2>1, GivenFields
  <2> HIDE DEF w, u
  <2> QED BY <1>3, <2>1, <2>2, <2>3, <2>4
<1>5. ASSUME Assign(r) PROVE Inv'
  <2> DEFINE u == p.user
             e == p.to
             w == Assigned(row[u], e)
             Given(x) == /\ x \in Row /\ x.status = row[u].status
                         /\ x.token \in {row[u].token, 0}
                         /\ x.vouched = row[u].vouched /\ row[u].assigned \subseteq x.assigned
                         /\ (x.verified <=> row[u].verified)
                         /\ x.email = row[u].email \/ (x.email \in Emails /\ x.email \in x.assigned)
  <2>1. /\ p.pc = "assign" /\ u \in Users /\ e \in Emails /\ row[u] \in Row
        /\ row[u].status # "none"
    BY <1>0, <1>5, RequestForms DEF Assign, At, RequestSound, Anonymous
  <2>2. /\ Goes(r, Idle) /\ UNCHANGED <<link, code, signed, heirs, jobs, starts>>
        /\ \E x \in {row[u], Ended(w), w, Secret(w)} : row' = [row EXCEPT ![u] = x]
    BY <1>5 DEF Assign, Ends
  <2>3. /\ w \in Row /\ w.status = row[u].status /\ w.email = e /\ w.token = row[u].token
        /\ w.vouched = row[u].vouched /\ w.assigned = row[u].assigned \cup {e}
        /\ (w.verified <=> row[u].verified)
    <3>1. w \in Row
      BY <2>1, RowForms
    <3>2. /\ w.status = row[u].status /\ w.email = e /\ w.token = row[u].token
          /\ w.vouched = row[u].vouched /\ w.assigned = row[u].assigned \cup {e}
          /\ (w.verified <=> row[u].verified)
      BY <2>1, GivenFields
    <3> QED BY <3>1, <3>2
  <2> HIDE DEF w
  <2>4. Given(row[u]) /\ Given(w)
    BY <2>1, <2>3
  <2>5. Given(Ended(w))
    <3>1. Ended(w) \in Row
      BY <2>3, RowForms
    <3>2. /\ Ended(w).status = w.status /\ Ended(w).email = w.email /\ Ended(w).token = 0
          /\ Ended(w).vouched = w.vouched /\ Ended(w).assigned = w.assigned
          /\ (Ended(w).verified <=> w.verified)
      BY <2>3, GivenFields
    <3> QED BY <2>1, <2>3, <3>1, <3>2
  <2>6. Given(Secret(w))
    <3>1. Secret(w) \in Row
      BY <2>3, RowForms
    <3>2. /\ Secret(w).status = w.status /\ Secret(w).email = w.email
          /\ Secret(w).token = w.token /\ Secret(w).vouched = w.vouched
          /\ Secret(w).assigned = w.assigned /\ (Secret(w).verified <=> w.verified)
      BY <2>3, GivenFields
    <3> QED BY <2>1, <2>3, <3>1, <3>2
  <2>7. PICK x : Given(x) /\ row' = [row EXCEPT ![u] = x]
    <3> HIDE DEF Given
    <3> QED BY <2>2, <2>4, <2>5, <2>6
  <2> HIDE DEF u
  <2> QED BY <1>3, <2>1, <2>2, <2>7
<1>6. ASSUME NEW u \in Users, InviteInsert(r, u) PROVE Inv'
  <2> DEFINE e == p.to
             w == Invited(row[u], e)
  <2>1. /\ p.pc = "invite" /\ e \in Emails /\ row[u].status = "none" /\ row[u] \in Row
        /\ ~row[u].verified /\ row[u].vouched = {} /\ row[u].assigned = {}
        /\ row[u].token = 0
    BY <1>0, <1>6, RequestForms DEF InviteInsert, At, RowSound
  <2>2. /\ row' = row \/ row' = [row EXCEPT ![u] = w]
        /\ Goes(r, Idle) /\ UNCHANGED <<link, code, signed, heirs, jobs, starts>>
    BY <1>6 DEF InviteInsert, Ends
  <2>3. /\ w \in Row /\ w.status = "live" /\ w.email = e /\ w.token = 0 /\ w.verified
        /\ w.vouched = {} /\ w.assigned = {e}
    <3>1. w \in Row
      BY <2>1, RowForms
    <3>2. /\ w.status = "live" /\ w.email = e /\ w.token = row[u].token /\ w.verified
          /\ w.vouched = row[u].vouched /\ w.assigned = {e}
      BY <2>1, GivenFields
    <3> QED BY <2>1, <3>1, <3>2
  <2> HIDE DEF w
  <2>4. CASE row' = [row EXCEPT ![u] = w]
    <3>1. RowSound(w)
      BY <2>3 DEF RowSound
    <3> QED BY <1>2, <2>1, <2>2, <2>3, <2>4, <3>1
  <2>5. CASE row' = row
    <3>1. Grow(row, row, code, code')
      BY <2>2, Finite, CodeForms DEF Grow, Meets
    <3>2. /\ Counted' /\ request' \in [Requests -> Request]
          /\ \A s \in Requests : request'[s] \in {request[s], Idle}
      BY <1>0, <2>1, <2>2, StillCounted
    <3> QED BY <1>0, <1>1, <2>2, <2>5, <3>1, <3>2, CodesChange DEF TypeOK
  <2> QED BY <2>2, <2>4, <2>5
<1> QED BY <1>4, <1>5, <1>6

(***************************************************************************)
(* The theorems.                                                           *)
(***************************************************************************)

LEMMA Inductive == Inv /\ [Next]_vars => Inv'
<1> SUFFICES ASSUME Inv, [Next]_vars PROVE Inv'
  OBVIOUS
<1>1. CASE Next
  BY <1>1, StartSteps, QueueSteps, CodeSteps, RowSteps, GoogleSteps, AdminSteps, Deletion
     DEF Next
<1>2. CASE UNCHANGED vars
  BY <1>2 DEF vars, Inv, TypeOK, Live, Counted, Busy, Sound, AddressProven, Proven, Verified,
              TokensSound
<1> QED BY <1>1, <1>2

LEMMA Invariant == Spec => []Inv
BY Initial, Inductive, PTL DEF Spec

(* Every variable keeps its type, and a live account an address, whatever  *)
(* requests overlap.                                                       *)
THEOREM TypeCorrect == Spec => []TypeOK
<1>1. Inv => TypeOK
  BY DEF Inv
<1> QED BY Invariant, <1>1, PTL

(* A verified account stands at an address a code was sent to and given    *)
(* back from, or Google vouched for, or an administrator gave it, for any  *)
(* accounts, addresses, codes and overlapping requests.                    *)
THEOREM AddressProvenHolds == Spec => []AddressProven
<1>1. Inv => AddressProven
  BY DEF Inv
<1> QED BY Invariant, <1>1, PTL

(* A refresh token is exchanged once at most and honoured by nobody after. *)
THEOREM ExchangedOnceHolds == Spec => []ExchangedOnce
<1>1. Inv => ExchangedOnce
  BY DEF Inv, TokensSound, ExchangedOnce
<1> QED BY Invariant, <1>1, PTL

(***************************************************************************)
(* The codes implement OneTimeCodes.                                       *)
(***************************************************************************)

Out == {k \in DOMAIN code : code[k].open}
Shut == {k \in DOMAIN code : ~code[k].open}
Taken == [k \in Slips |-> IF k \in DOMAIN code THEN code[k].taken ELSE 0]

LEMMA CodesInit == Init => Codes!Init
<1> SUFFICES ASSUME Init PROVE Codes!Init
  OBVIOUS
<1>1. DOMAIN code = {}
  BY DEF Init
<1> QED BY <1>1 DEF Codes!Init

(* All but four steps leave the codes alone.                               *)
LEMMA OtherSteps ==
  ASSUME Next
  PROVE  \/ \E r \in Requests : CloseOpen(r) \/ Issue(r) \/ Mark(r)
         \/ \E k \in Slips : Expire(k)
         \/ code' = code
<1> USE DEF Next
<1>1. ASSUME NEW r \in Requests, NEW u \in Users,
             \/ RegisterInsert(r, u) \/ Resend(r, u) \/ Deliver(r, u) \/ Login(r, u)
             \/ RefreshStart(r, u) \/ LogoutStart(r, u) \/ ChangePassword(r, u)
             \/ \E e \in Emails : RequestEmailChange(r, u, e)
             \/ Provision(r, u) \/ InviteInsert(r, u) \/ UpdateUser(r, u)
             \/ \E e \in Emails : ChangeEmail(r, u, e)
             \/ \E kind \in Kinds, e \in Emails \cup {NoEmail} : Consume(r, u, kind, e)
      PROVE  code' = code
  BY <1>1 DEF RegisterInsert, Resend, Deliver, Login, RefreshStart, LogoutStart, ChangePassword,
              RequestEmailChange, Consume, Provision, InviteInsert, UpdateUser, ChangeEmail
<1>2. ASSUME NEW r \in Requests,
             \/ \E e \in Emails : RegisterStart(r, e) \/ GoogleSignIn(r, e) \/ Invite(r, e)
             \/ GoogleLookup(r) \/ Vouch(r) \/ Link(r)
             \/ MarkVerified(r) \/ UpdatePassword(r) \/ UpdateEmail(r)
             \/ Persist(r) \/ Rotate(r) \/ Logout(r) \/ Assign(r) \/ SetPassword(r)
      PROVE  code' = code
  BY <1>2 DEF RegisterStart, GoogleSignIn, Invite, GoogleLookup, Vouch, Link, MarkVerified,
              UpdatePassword, UpdateEmail, Persist, Rotate, Logout, Assign, SetPassword
<1>3. ASSUME Crash \/ \E u \in Users : ForgotPassword(u) \/ DeleteAccount(u) PROVE code' = code
  BY <1>3 DEF Crash, ForgotPassword, DeleteAccount
<1> QED BY <1>1, <1>2, <1>3

LEMMA CodesStep == Inv /\ [Next]_vars => [Codes!Next]_(Codes!vars)
<1> SUFFICES ASSUME Inv, [Next]_vars PROVE [Codes!Next]_(Codes!vars)
  OBVIOUS
<1>0. /\ TypeOK /\ Sound /\ Counted /\ Len(code) \in Nat /\ DOMAIN code = 1..Len(code)
      /\ \A k \in DOMAIN code : /\ code[k] \in Code /\ code[k].open \in BOOLEAN
                                /\ code[k].taken \in Nat /\ k \in Slips
  <2>1. TypeOK /\ Sound /\ Counted /\ Len(code) <= MaxStarts
    BY Finite, BoundAssumption DEF Inv, TypeOK
  <2> QED BY <2>1, Finite, CodeForms, BoundAssumption DEF Slips
<1>1. ASSUME Out' = Out, Shut' = Shut, Taken' = Taken PROVE [Codes!Next]_(Codes!vars)
  BY <1>1 DEF Codes!vars, Out, Shut, Taken
<1>2. ASSUME code' = code PROVE [Codes!Next]_(Codes!vars)
  BY <1>1, <1>2 DEF Out, Shut, Taken
<1>3. ASSUME NEW r \in Requests, CloseOpen(r) PROVE [Codes!Next]_(Codes!vars)
  <2> DEFINE K == OpenCodes(request[r].user, request[r].kind)
  <2>1. K \subseteq Out
    BY DEF OpenCodes, Out
  <2>2. /\ DOMAIN code' = DOMAIN code
        /\ \A k \in DOMAIN code : /\ code'[k].open <=> code[k].open /\ k \notin K
                                  /\ code'[k].taken = code[k].taken
    <3>1. /\ DOMAIN code' = DOMAIN code
          /\ \A k \in DOMAIN code : code'[k] = IF k \in K THEN Closed(code[k]) ELSE code[k]
      BY <1>0, <1>3, CloseOpenEffect
    <3> HIDE DEF K
    <3>2. ASSUME NEW k \in DOMAIN code
          PROVE  /\ code'[k].open <=> code[k].open /\ k \notin K
                 /\ code'[k].taken = code[k].taken
      <4>1. ~Closed(code[k]).open /\ Closed(code[k]).taken = code[k].taken
        BY <1>0, CodeForms
      <4> QED BY <3>1, <4>1
    <3> QED BY <3>1, <3>2
  <2>3. Out' = Out \ K /\ Shut' = Shut \cup K /\ Taken' = Taken
    BY <2>1, <2>2 DEF Out, Shut, Taken
  <2> HIDE DEF K
  <2>4. Codes!Next
    BY <2>1, <2>3 DEF Codes!Next, Codes!Withdraw, Out, Shut, Taken
  <2> QED BY <2>4
<1>4. ASSUME NEW r \in Requests, Issue(r) PROVE [Codes!Next]_(Codes!vars)
  <2> DEFINE n == Len(code) + 1
  <2>1. n \in Slips /\ n \notin DOMAIN code
    <3>1. request[r].pc # "idle" /\ Goes(r, Idle)
      BY <1>4 DEF Issue, At, Ends
    <3>2. Cardinality(Busy) = Cardinality(Busy') + 1 /\ Cardinality(Busy') \in Nat
      BY <1>0, <3>1, RequestTypes, Counting
    <3>3. n <= MaxStarts
      BY <1>0, <3>2, BoundAssumption DEF Counted, TypeOK
    <3> QED BY <1>0, <3>3, BoundAssumption DEF Slips
  <2>2. /\ DOMAIN code' = DOMAIN code \cup {n} /\ code'[n].open /\ code'[n].taken = 0
        /\ \A k \in DOMAIN code : code'[k] = code[k]
    BY <1>0, <1>4, IssueEffect
  <2>3. Out' = Out \cup {n} /\ Shut' = Shut /\ Taken' = Taken
    BY <2>1, <2>2 DEF Out, Shut, Taken
  <2> HIDE DEF n
  <2>4. Codes!Next
    BY <2>1, <2>3 DEF Codes!Next, Codes!HandOut, Out, Shut, Taken
  <2> QED BY <2>4
<1>5. ASSUME NEW r \in Requests, Mark(r) PROVE [Codes!Next]_(Codes!vars)
  <2> DEFINE k == request[r].code
  <2>1. k \in DOMAIN code /\ k \in Slips
    BY <1>0, <1>5 DEF Mark, At, Sound, RequestSound, Anonymous
  <2>2. CASE ~Unused(k)
    BY <1>2, <1>5, <2>2 DEF Mark
  <2>3. CASE Unused(k)
    <3>1. code' = [code EXCEPT ![k] = Accepted(code[k])]
      BY <1>5, <2>3 DEF Mark
    <3>2. Accepted(code[k]) \in Code /\ ~Accepted(code[k]).open /\ Accepted(code[k]).taken = code[k].taken + 1
      BY <1>0, <2>1, CodeForms
    <3>3. /\ DOMAIN code' = DOMAIN code /\ ~code'[k].open /\ code'[k].taken = code[k].taken + 1
          /\ \A j \in DOMAIN code \ {k} : code'[j] = code[j]
      BY <1>0, <2>1, <3>1, <3>2, ReplacedEffect
    <3>4. k \in Out /\ Out' = Out \ {k} /\ Shut' = Shut \cup {k}
      BY <2>1, <2>3, <3>3 DEF Unused, Out, Shut
    <3>5. Taken' = [Taken EXCEPT ![k] = @ + 1]
      BY <2>1, <3>3 DEF Taken
    <3> HIDE DEF k
    <3>6. Codes!Next
      BY <2>1, <3>4, <3>5 DEF Codes!Next, Codes!Accept, Out, Shut, Taken
    <3> QED BY <3>6
  <2> QED BY <2>2, <2>3
<1>6. ASSUME NEW k \in Slips, Expire(k) PROVE [Codes!Next]_(Codes!vars)
  <2>1. k \in DOMAIN code /\ code' = [code EXCEPT ![k] = Aged(code[k])]
    BY <1>6 DEF Expire, Aged
  <2>2. /\ DOMAIN code' = DOMAIN code
        /\ \A j \in DOMAIN code : (code'[j].open <=> code[j].open) /\ code'[j].taken = code[j].taken
    BY <1>0, <2>1, CodeForms, ReplacedEffect
  <2>3. Out' = Out /\ Shut' = Shut /\ Taken' = Taken
    BY <2>2 DEF Out, Shut, Taken
  <2> QED BY <1>1, <2>3
<1>7. CASE UNCHANGED vars
  BY <1>2, <1>7 DEF vars
<1> QED BY <1>2, <1>3, <1>4, <1>5, <1>6, <1>7, OtherSteps

(* The three tables of codes implement OneTimeCodes: a code is accepted    *)
(* once at most and never after it was withdrawn, for any requests that    *)
(* overlap and any deliveries run again.                                   *)
THEOREM CodesImplemented == Spec => CodesSpec
BY CodesInit, Invariant, CodesStep, PTL DEF Spec, CodesSpec, Codes!Spec

(***************************************************************************)
(* Sessions that are over stay over.                                       *)
(***************************************************************************)

(* What a step can do to the state and the token of an account: tokens are *)
(* dropped or signed anew, never brought back.                             *)
RowMoves(u) ==
  /\ \/ row'[u].status = row[u].status
     \/ row[u].status = "none" /\ row'[u].status = "live"
     \/ row'[u].status = "gone" /\ row'[u].token = 0
  /\ \/ row'[u].token \in {row[u].token, 0}
     \/ row'[u].token = signed' /\ signed' = signed + 1
  /\ signed' \in {signed, signed + 1}

LEMMA RowStep ==
  ASSUME Inv, [Next]_vars, NEW u \in Users
  PROVE  RowMoves(u)
<1>0. /\ row \in [Users -> Row] /\ row[u] \in Row
      /\ row[u].status \in {"none", "live", "gone"}
  BY DEF Inv, TypeOK, Row
<1>1. ASSUME row' = row, signed' = signed PROVE RowMoves(u)
  BY <1>1 DEF RowMoves
<1>2. ASSUME NEW v, row' = [row EXCEPT ![v] = row'[v]],
             /\ row'[u].status = row[u].status \/ u # v
             /\ row'[u].token \in {row[u].token, 0} \/ u # v,
             signed' = signed
      PROVE  RowMoves(u)
  BY <1>0, <1>2 DEF RowMoves
<1>3. ASSUME NEW r \in Requests, NEW v \in Users, RegisterInsert(r, v)
      PROVE  RowMoves(u)
  <2>1. CASE HeldByOther(v, request[r].to)
    BY <1>1, <1>3, <2>1 DEF RegisterInsert
  <2>2. CASE ~ HeldByOther(v, request[r].to)
    <3>1. /\ row[v].status = "none" /\ signed' = signed
          /\ row' = [row EXCEPT ![v] = Registered(@, request[r].to)]
      BY <1>3, <2>2 DEF RegisterInsert
    <3>2. row'[u] = IF u = v THEN Registered(row[u], request[r].to) ELSE row[u]
      BY <1>0, <3>1
    <3>3. /\ Registered(row[u], request[r].to).status = "live"
          /\ Registered(row[u], request[r].to).token = row[u].token
      BY <1>0, RowFields
    <3> QED BY <3>1, <3>2, <3>3 DEF RowMoves
  <2> QED BY <2>1, <2>2
<1>4. ASSUME NEW r \in Requests, NEW v \in Users, Provision(r, v)
      PROVE  RowMoves(u)
  <2> DEFINE e == request[r].to
  <2>1. CASE HeldByOther(v, e) \/ LinkedTo(e) # {}
    BY <1>1, <1>4, <2>1 DEF Provision
  <2>2. CASE ~ (HeldByOther(v, e) \/ LinkedTo(e) # {})
    <3>1. /\ row[v].status = "none" /\ signed' = signed
          /\ row' = [row EXCEPT ![v] = Provisioned(@, e)]
      BY <1>4, <2>2 DEF Provision
    <3>2. row'[u] = IF u = v THEN Provisioned(row[u], e) ELSE row[u]
      BY <1>0, <3>1
    <3>3. /\ Provisioned(row[u], e).status = "live"
          /\ Provisioned(row[u], e).token = row[u].token
      BY <1>0, RowFields
    <3> QED BY <3>1, <3>2, <3>3 DEF RowMoves
  <2> QED BY <2>1, <2>2
<1>5. ASSUME NEW r \in Requests, MarkVerified(r) \/ Logout(r) PROVE RowMoves(u)
  <2>1. /\ signed' = signed
        /\ \/ row' = [row EXCEPT ![request[r].user].verified = @ \/ ~request[r].seen]
           \/ row' = [row EXCEPT ![request[r].user].token = 0]
    BY <1>5 DEF MarkVerified, Logout
  <2>2. CASE row' = [row EXCEPT ![request[r].user].token = 0]
    <3>1. row'[u].status = row[u].status /\ row'[u].token \in {row[u].token, 0}
      BY <1>0, <2>2 DEF Row
    <3> QED BY <2>1, <3>1 DEF RowMoves
  <2>3. CASE row' = [row EXCEPT ![request[r].user].verified = @ \/ ~request[r].seen]
    <3>1. \/ row'[u] = row[u]
          \/ \E b : row'[u] = [row[u] EXCEPT !.verified = b]
      BY <1>0, <2>3
    <3>2. \A b : /\ [row[u] EXCEPT !.verified = b].status = row[u].status
                 /\ [row[u] EXCEPT !.verified = b].token = row[u].token
      BY <1>0 DEF Row
    <3>3. row'[u].status = row[u].status /\ row'[u].token = row[u].token
      BY <3>1, <3>2
    <3> QED BY <2>1, <3>3 DEF RowMoves
  <2> QED BY <2>1, <2>2, <2>3
<1>6. ASSUME NEW r \in Requests, UpdatePassword(r) \/ UpdateEmail(r)
      PROVE  RowMoves(u)
  <2>1. /\ signed' = signed
        /\ \/ row' = row
           \/ row' = [row EXCEPT ![request[r].user] = Secured(@)]
           \/ row' = [row EXCEPT ![request[r].user] =
                        [@ EXCEPT !.email = request[r].to, !.token = 0]]
    BY <1>6 DEF UpdatePassword, UpdateEmail, Secured
  <2>2. \/ row'[u] = row[u] \/ row'[u] = Secured(row[u])
        \/ row'[u] = [row[u] EXCEPT !.email = request[r].to, !.token = 0]
    BY <1>0, <2>1
  <2>3. /\ Secured(row[u]).status = row[u].status /\ Secured(row[u]).token = 0
        /\ LET x == [row[u] EXCEPT !.email = request[r].to, !.token = 0]
           IN x.status = row[u].status /\ x.token = 0
    BY <1>0, RowFields
  <2>4. row'[u].status = row[u].status /\ row'[u].token \in {row[u].token, 0}
    BY <2>2, <2>3
  <2> QED BY <2>1, <2>4 DEF RowMoves
<1>7. ASSUME NEW r \in Requests, Persist(r) \/ Rotate(r) PROVE RowMoves(u)
  <2>1. \/ row' = row /\ signed' = signed
        \/ /\ signed' = signed + 1
           /\ row' = [row EXCEPT ![request[r].user].token = signed']
    BY <1>7 DEF Persist, Rotate
  <2>2. CASE signed' = signed + 1 /\ row' = [row EXCEPT ![request[r].user].token = signed']
    <3>1. row'[u].status = row[u].status /\ row'[u].token \in {row[u].token, signed'}
      BY <1>0, <2>2 DEF Row
    <3> QED BY <2>2, <3>1 DEF RowMoves
  <2> QED BY <1>1, <2>1, <2>2
<1>8. ASSUME NEW r \in Requests, Vouch(r) PROVE RowMoves(u)
  <2>1. /\ signed' = signed
        /\ row' = [row EXCEPT ![request[r].user] = Vouched(@, request[r].to)]
    BY <1>8 DEF Vouch
  <2>2. row'[u] = row[u] \/ row'[u] = Vouched(row[u], request[r].to)
    BY <1>0, <2>1
  <2>3. /\ Vouched(row[u], request[r].to).status = row[u].status
        /\ Vouched(row[u], request[r].to).token = row[u].token
    BY <1>0, RowFields
  <2> QED BY <2>1, <2>2, <2>3 DEF RowMoves
<1>14. ASSUME NEW r \in Requests, NEW v \in Users, InviteInsert(r, v)
       PROVE  RowMoves(u)
  <2>1. /\ row[v].status = "none" /\ signed' = signed
        /\ row' = row \/ row' = [row EXCEPT ![v] = Invited(@, request[r].to)]
    BY <1>14 DEF InviteInsert
  <2>2. row'[u] = row[u] \/ (u = v /\ row'[u] = Invited(row[u], request[r].to))
    BY <1>0, <2>1
  <2>3. /\ Invited(row[u], request[r].to).status = "live"
        /\ Invited(row[u], request[r].to).token = row[u].token
    BY <1>0, GivenFields
  <2> QED BY <2>1, <2>2, <2>3 DEF RowMoves
<1>15. ASSUME NEW r \in Requests, Assign(r) \/ SetPassword(r) PROVE RowMoves(u)
  <2> DEFINE v == request[r].user
             w == Assigned(row[v], request[r].to)
             Kept(x) == x.status = row[u].status /\ x.token \in {row[u].token, 0}
  <2>1. /\ signed' = signed
        /\ \E x \in {row[v], Ended(w), w, Secret(w), Secret(row[v])} : row' = [row EXCEPT ![v] = x]
    BY <1>15 DEF Assign, SetPassword
  <2>2. CASE u # v
    <3>1. row'[u] = row[u]
      BY <1>0, <2>1, <2>2
    <3> QED BY <2>1, <3>1 DEF RowMoves
  <2>3. CASE u = v
    <3>1. w.status = row[u].status /\ w.token = row[u].token
      BY <1>0, <2>3, GivenFields
    <3>2. /\ Ended(w).status = w.status /\ Ended(w).token = 0
          /\ Secret(w).status = w.status /\ Secret(w).token = w.token
          /\ Secret(row[u]).status = row[u].status /\ Secret(row[u]).token = row[u].token
      BY <1>0, <2>3 DEF Ended, Secret, Assigned, Row
    <3>3. /\ Kept(row[v]) /\ Kept(w) /\ Kept(Ended(w)) /\ Kept(Secret(w))
          /\ Kept(Secret(row[v]))
      BY <2>3, <3>1, <3>2
    <3>4. \E x : Kept(x) /\ row' = [row EXCEPT ![v] = x]
      <4> HIDE DEF Kept, w
      <4> QED BY <2>1, <3>3
    <3>5. row'[u].status = row[u].status /\ row'[u].token \in {row[u].token, 0}
      BY <1>0, <2>3, <3>4
    <3> QED BY <2>1, <3>5 DEF RowMoves
  <2> QED BY <2>2, <2>3
<1>9. ASSUME NEW v \in Users, DeleteAccount(v) PROVE RowMoves(u)
  <2>1. signed' = signed /\ row' = [row EXCEPT ![v] = Deleted(@)]
    BY <1>9 DEF DeleteAccount
  <2>2. row'[u] = row[u] \/ row'[u] = Deleted(row[u])
    BY <1>0, <2>1
  <2>3. Deleted(row[u]).status = "gone" /\ Deleted(row[u]).token = 0
    BY <1>0, RowFields
  <2> QED BY <2>1, <2>2, <2>3 DEF RowMoves
<1>10. ASSUME NEW r \in Requests, NEW v \in Users,
              \/ Resend(r, v) \/ Deliver(r, v) \/ Login(r, v) \/ RefreshStart(r, v)
              \/ LogoutStart(r, v) \/ ChangePassword(r, v)
              \/ \E e \in Emails : RequestEmailChange(r, v, e) \/ ChangeEmail(r, v, e)
              \/ UpdateUser(r, v)
              \/ \E kind \in Kinds, e \in Emails \cup {NoEmail} : Consume(r, v, kind, e)
       PROVE  RowMoves(u)
  BY <1>1, <1>10 DEF Resend, Deliver, Login, RefreshStart, LogoutStart,
                     ChangePassword, RequestEmailChange, ChangeEmail, UpdateUser, Consume
<1>11. ASSUME NEW r \in Requests,
              \/ \E e \in Emails : RegisterStart(r, e) \/ GoogleSignIn(r, e) \/ Invite(r, e)
              \/ CloseOpen(r) \/ Issue(r) \/ Mark(r) \/ GoogleLookup(r) \/ Link(r)
       PROVE  RowMoves(u)
  BY <1>1, <1>11 DEF RegisterStart, GoogleSignIn, Invite, CloseOpen, Issue, Mark,
                     GoogleLookup, Link
<1>12. ASSUME \/ Crash \/ UNCHANGED vars
              \/ \E v \in Users : ForgotPassword(v) \/ \E k \in Slips : Expire(k)
       PROVE  RowMoves(u)
  BY <1>1, <1>12 DEF Crash, ForgotPassword, Expire, vars
<1>13. ASSUME NEW k \in Slips, Expire(k) PROVE RowMoves(u)
  BY <1>1, <1>13 DEF Expire
<1> HIDE DEF RowMoves
<1> QED BY <1>3, <1>4, <1>5, <1>6, <1>7, <1>8, <1>9, <1>10, <1>11, <1>12, <1>13,
           <1>14, <1>15 DEF Next

(* A refresh token that no account honours any more, because of a log-out, *)
(* a new password or address, a deletion or an exchange, is never honoured *)
(* again, whatever requests that read it earlier are still to write.       *)
RevokedForGood ==
  [][\A t \in 1..signed : (\A u \in Users : row[u].token # t) =>
       \A u \in Users : row'[u].token # t]_vars

THEOREM RevokedForGoodHolds == Spec => RevokedForGood
<1>1. ASSUME Inv, [Next]_vars, NEW t \in 1..signed, NEW u \in Users,
             row[u].token # t
      PROVE  row'[u].token # t
  <2>1. signed \in Nat /\ t \in Nat /\ t # 0 /\ t <= signed
    BY BoundAssumption, <1>1 DEF Inv, TypeOK
  <2> QED BY <1>1, <2>1, RowStep DEF RowMoves
<1>2. Inv /\ [Next]_vars
        => [\A t \in 1..signed : (\A u \in Users : row[u].token # t) =>
              \A u \in Users : row'[u].token # t]_vars
  BY <1>1
<1> QED BY <1>2, Invariant, PTL DEF Spec, RevokedForGood

(* The only request that gets to `rotate` is a refresh that has just read  *)
(* the token of a live account.                                            *)
LEMMA RotateBegins ==
  ASSUME Inv, [Next]_vars, NEW r \in Requests, request'[r].pc = "rotate"
  PROVE  \/ request'[r] = request[r]
         \/ \E u \in Users :
              /\ Live(u) /\ row[u].token # 0
              /\ request'[r] = [pc |-> "rotate", user |-> u, old |-> row[u].token]
              /\ row' = row /\ signed' = signed
<1> DEFINE Done == \/ request'[r] = request[r]
                   \/ \E u \in Users :
                        /\ Live(u) /\ row[u].token # 0
                        /\ request'[r] = [pc |-> "rotate", user |-> u,
                                          old |-> row[u].token]
                        /\ row' = row /\ signed' = signed
<1>0. request \in [Requests -> Request] /\ request[r] \in Request
  BY DEF Inv, TypeOK
<1>1. ASSUME NEW s \in Requests, NEW q, q.pc # "rotate", Goes(s, q) PROVE Done
  BY <1>0, <1>1 DEF Goes
<1>2. ASSUME NEW s \in Requests, Ends(s) PROVE Done
  BY <1>1, <1>2 DEF Ends, Idle
<1>3. ASSUME NEW s \in Requests, NEW u \in Users, RefreshStart(s, u) PROVE Done
  BY <1>0, <1>3 DEF RefreshStart, Begins, Goes
<1>4. ASSUME NEW s \in Requests, NEW u \in Users,
             \/ RegisterInsert(s, u) \/ Resend(s, u) \/ Provision(s, u)
             \/ \E e \in Emails : RequestEmailChange(s, u, e)
      PROVE  Done
  BY <1>1, <1>2, <1>4
     DEF RegisterInsert, Resend, RequestEmailChange, Issuing, Begins, Provision
<1>19. ASSUME NEW s \in Requests, NEW u \in Users,
              UpdateUser(s, u) \/ \E e \in Emails : ChangeEmail(s, u, e)
       PROVE  Done
  BY <1>1, <1>19 DEF UpdateUser, ChangeEmail, Begins
<1>20. ASSUME NEW s \in Requests, NEW e \in Emails, Invite(s, e) PROVE Done
  BY <1>1, <1>20 DEF Invite, Begins
<1>21. ASSUME NEW s \in Requests,
              Assign(s) \/ SetPassword(s) \/ \E u \in Users : InviteInsert(s, u)
       PROVE  Done
  BY <1>2, <1>21 DEF Assign, SetPassword, InviteInsert
<1>5. ASSUME NEW s \in Requests, NEW u \in Users,
             \/ Login(s, u) \/ LogoutStart(s, u) \/ ChangePassword(s, u)
      PROVE  Done
  BY <1>1, <1>5 DEF Login, LogoutStart, ChangePassword, Begins
<1>6. ASSUME NEW s \in Requests, NEW u \in Users, Deliver(s, u) PROVE Done
  BY <1>1, <1>6 DEF Deliver, Begins, Issuing
<1>7. ASSUME NEW s \in Requests, NEW u \in Users, NEW kind \in Kinds,
             NEW e \in Emails \cup {NoEmail}, Consume(s, u, kind, e)
      PROVE  Done
  BY <1>1, <1>7 DEF Consume, Begins
<1>8. ASSUME NEW s \in Requests, CloseOpen(s) PROVE Done
  <2>1. [request[s] EXCEPT !.pc = "issue"].pc = "issue"
    BY RequestForms, <1>8 DEF CloseOpen, At, Inv, TypeOK
  <2> QED BY <1>1, <1>8, <2>1 DEF CloseOpen
<1>9. ASSUME NEW s \in Requests, Mark(s) PROVE Done
  <2>1. /\ \A kind \in Kinds : After(kind) # "rotate"
        /\ code[request[s].code].kind \in Kinds
    <3>1. request[s].code \in DOMAIN code
      BY <1>9 DEF Mark, At, Inv, Sound, RequestSound
    <3> QED BY <3>1, Finite, CodeForms DEF After, Kinds, Inv
  <2> QED BY <1>1, <1>2, <1>9, <2>1 DEF Mark
<1>10. ASSUME NEW s \in Requests,
              \/ Issue(s) \/ UpdatePassword(s) \/ UpdateEmail(s) \/ Persist(s)
              \/ Rotate(s) \/ Logout(s)
       PROVE  Done
  BY <1>2, <1>10 DEF Issue, UpdatePassword, UpdateEmail, Persist, Rotate, Logout
<1>11. ASSUME NEW s \in Requests, MarkVerified(s) \/ Link(s) PROVE Done
  BY <1>1, <1>2, <1>11 DEF MarkVerified, Link
<1>12. ASSUME NEW s \in Requests, Vouch(s) PROVE Done
  <2>1. [request[s] EXCEPT !.pc = "link"].pc = "link"
    BY RequestForms, <1>12 DEF Vouch, At, Inv, TypeOK
  <2> QED BY <1>1, <1>2, <1>12, <2>1 DEF Vouch
<1>13. ASSUME NEW s \in Requests, NEW e \in Emails,
              RegisterStart(s, e) \/ GoogleSignIn(s, e)
       PROVE  Done
  BY <1>1, <1>13 DEF RegisterStart, GoogleSignIn, Begins
<1>14. ASSUME NEW s \in Requests, GoogleLookup(s) PROVE Done
  BY <1>1, <1>2, <1>14 DEF GoogleLookup
<1>15. ASSUME \/ UNCHANGED vars
              \/ \E u \in Users : ForgotPassword(u) \/ DeleteAccount(u)
       PROVE  Done
  BY <1>15 DEF ForgotPassword, DeleteAccount, vars
<1>18. ASSUME Crash PROVE Done
  <2>1. request'[r] = Idle
    BY <1>18 DEF Crash
  <2> QED BY <2>1 DEF Idle
<1>16. ASSUME NEW k \in Slips, Expire(k) PROVE Done
  BY <1>16 DEF Expire
<1> HIDE DEF Done
<1>17. Done
  BY <1>3, <1>4, <1>5, <1>6, <1>7, <1>8, <1>9, <1>10, <1>11, <1>12, <1>13, <1>14,
     <1>15, <1>16, <1>18, <1>19, <1>20, <1>21 DEF Next
<1> QED BY <1>17 DEF Done

(* A refresh that has read an account as live writes nothing once the      *)
(* account is deleted, although a login under way may still store a token  *)
(* in the deleted row.                                                     *)
NotRenewedOnceDeleted ==
  \A r \in Requests :
    At(r, "rotate") /\ StillHonoured(request[r].user, request[r].old)
      => Live(request[r].user)

RefreshInv ==
  /\ NotRenewedOnceDeleted
  /\ \A r \in Requests : At(r, "rotate") => request[r].old <= signed

THEOREM NotRenewedOnceDeletedHolds == Spec => []NotRenewedOnceDeleted
<1>1. Init => RefreshInv
  BY DEF Init, RefreshInv, NotRenewedOnceDeleted, At, Idle
<1>2. Inv /\ RefreshInv /\ [Next]_vars => RefreshInv'
  <2> SUFFICES ASSUME Inv, RefreshInv, [Next]_vars, NEW r \in Requests,
                      request'[r].pc = "rotate"
               PROVE  /\ request'[r].old <= signed'
                      /\ row'[request'[r].user].token = request'[r].old
                           => row'[request'[r].user].status = "live"
    BY DEF RefreshInv, NotRenewedOnceDeleted, At, StillHonoured, Live
  <2>0. signed \in Nat /\ (signed' \in {signed, signed + 1} \/ Users = {})
    BY RowStep, BoundAssumption DEF RowMoves, Inv, TypeOK
  <2>1. CASE request'[r] = request[r]
    <3> DEFINE u == request[r].user
    <3>1. /\ u \in Users /\ request[r].old \in Nat \ {0}
          /\ request[r].old <= signed
      <4>1. request[r] \in Request /\ request[r].pc = "rotate"
        BY <2>1 DEF Inv, TypeOK
      <4>2. u \in Users /\ request[r].old \in Tokens \ {0}
        BY <4>1, RequestForms DEF Anonymous
      <4> QED BY <4>1, <4>2, BoundAssumption DEF RefreshInv, At, Tokens
    <3>2. RowMoves(u)
      BY <3>1, RowStep
    <3>3. row[u].token = request[r].old => row[u].status = "live"
      BY <2>1 DEF RefreshInv, NotRenewedOnceDeleted, At, StillHonoured, Live
    <3> HIDE DEF u
    <3>4. row'[u].token = request[r].old => row'[u].status = "live"
      BY <2>0, <3>1, <3>2, <3>3 DEF RowMoves
    <3>5. request[r].old <= signed'
      BY <2>0, <3>1
    <3> QED BY <2>1, <3>4, <3>5 DEF u
  <2>2. CASE request'[r] # request[r]
    <3>1. PICK u \in Users :
            /\ Live(u) /\ row[u].token # 0
            /\ request'[r] = [pc |-> "rotate", user |-> u, old |-> row[u].token]
            /\ row' = row /\ signed' = signed
      BY <2>2, RotateBegins
    <3>2. row[u].token <= signed
      BY DEF Inv, TokensSound
    <3> QED BY <3>1, <3>2 DEF Live
  <2> QED BY <2>1, <2>2
<1>3. RefreshInv => NotRenewedOnceDeleted
  BY DEF RefreshInv
<1> QED BY <1>1, <1>2, <1>3, Invariant, PTL DEF Spec

(***************************************************************************)
(* Identities at Google.                                                   *)
(***************************************************************************)

(* The links are one to one, and lead to accounts that were created.       *)
LinksInv ==
  \A u \in Users, e \in Emails :
    <<u, e>> \in link =>
      /\ LinkedTo(e) = {u}
      /\ {d \in Emails : <<u, d>> \in link} = {e}
      /\ row[u].status # "none"

(* A step adds one link at most, of an account and an identity that have   *)
(* none.                                                                   *)
LEMMA LinkStep ==
  ASSUME Inv, LinksInv, [Next]_vars
  PROVE  \/ link' = link
         \/ \E u \in Users, e \in Emails :
              /\ link' = link \cup {<<u, e>>} /\ LinkedTo(e) = {}
              /\ \A d \in Emails : <<u, d>> \notin link
              /\ row'[u].status # "none"
<1> DEFINE New == \E u \in Users, e \in Emails :
                    /\ link' = link \cup {<<u, e>>} /\ LinkedTo(e) = {}
                    /\ \A d \in Emails : <<u, d>> \notin link
                    /\ row'[u].status # "none"
<1>1. ASSUME NEW r \in Requests, Link(r) PROVE link' = link \/ New
  <2>1. request[r] \in Request /\ request[r].pc = "link"
    BY <1>1 DEF Link, At, Inv, TypeOK
  <2>2. request[r].user \in Users /\ request[r].to \in Emails
    BY <2>1, RequestForms DEF Anonymous
  <2>3. row'[request[r].user].status # "none"
    BY <1>1, <2>1 DEF Link, Inv, Sound, RequestSound, Anonymous
  <2> QED BY <1>1, <2>2, <2>3 DEF Link
<1>2. ASSUME NEW r \in Requests, NEW u \in Users, Provision(r, u)
      PROVE  link' = link \/ New
  <2> DEFINE e == request[r].to
  <2>1. CASE HeldByOther(u, e) \/ LinkedTo(e) # {}
    BY <1>2, <2>1 DEF Provision
  <2>2. CASE ~ (HeldByOther(u, e) \/ LinkedTo(e) # {})
    <3>1. /\ row[u].status = "none" /\ request[r].pc = "provision"
          /\ row' = [row EXCEPT ![u] = Provisioned(@, e)]
          /\ link' = link \cup {<<u, e>>} /\ LinkedTo(e) = {}
      BY <1>2, <2>2 DEF Provision, At
    <3>2. e \in Emails /\ row[u] \in Row /\ row \in [Users -> Row]
      BY <3>1, RequestForms DEF Inv, TypeOK
    <3>3. row'[u] = Provisioned(row[u], e)
      BY <3>1, <3>2
    <3>4. row'[u].status = "live"
      BY <3>2, <3>3, RowFields
    <3>5. \A d \in Emails : <<u, d>> \notin link
      BY <3>1 DEF LinksInv
    <3> QED BY <3>1, <3>2, <3>4, <3>5
  <2> QED BY <2>1, <2>2
<1>3. ASSUME NEW r \in Requests, NEW u \in Users,
             \/ RegisterInsert(r, u) \/ Resend(r, u) \/ Deliver(r, u)
             \/ Login(r, u) \/ RefreshStart(r, u)
             \/ LogoutStart(r, u) \/ ChangePassword(r, u)
             \/ InviteInsert(r, u) \/ UpdateUser(r, u)
             \/ \E e \in Emails : RequestEmailChange(r, u, e) \/ ChangeEmail(r, u, e)
             \/ \E kind \in Kinds, e \in Emails \cup {NoEmail} : Consume(r, u, kind, e)
      PROVE  link' = link
  BY <1>3 DEF RegisterInsert, Resend, Deliver, Login, RefreshStart, LogoutStart, InviteInsert,
              UpdateUser, ChangePassword, RequestEmailChange, ChangeEmail, Consume
<1>4. ASSUME NEW r \in Requests,
             \/ \E e \in Emails : RegisterStart(r, e) \/ GoogleSignIn(r, e) \/ Invite(r, e)
             \/ CloseOpen(r) \/ Issue(r) \/ Mark(r) \/ GoogleLookup(r)
      PROVE  link' = link
  BY <1>4 DEF RegisterStart, GoogleSignIn, Invite, CloseOpen, Issue, Mark, GoogleLookup
<1>5. ASSUME NEW r \in Requests,
             \/ MarkVerified(r) \/ UpdatePassword(r) \/ UpdateEmail(r)
             \/ Persist(r) \/ Rotate(r) \/ Logout(r) \/ Vouch(r) \/ Assign(r) \/ SetPassword(r)
      PROVE  link' = link
  BY <1>5 DEF MarkVerified, UpdatePassword, UpdateEmail, Persist, Rotate, Logout, Vouch, Assign,
              SetPassword
<1>6. ASSUME \/ Crash \/ UNCHANGED vars
             \/ \E u \in Users : ForgotPassword(u) \/ DeleteAccount(u)
             \/ \E k \in Slips : Expire(k)
      PROVE  link' = link
  BY <1>6 DEF Crash, ForgotPassword, DeleteAccount, Expire, vars
<1> HIDE DEF New
<1>7. link' = link \/ New
  BY <1>1, <1>2, <1>3, <1>4, <1>5, <1>6 DEF Next
<1> QED BY <1>7 DEF New

(* An identity at Google belongs to one account and an account has one     *)
(* identity, for good, whatever sign-ins overlap: two first sign-ins make  *)
(* one account, and the identity of a deleted account never gets another.  *)
IdentityForGood ==
  [][\A u \in Users, e \in Emails :
       <<u, e>> \in link =>
         /\ LinkedTo(e)' = {u}
         /\ {d \in Emails : <<u, d>> \in link'} = {e}]_vars

THEOREM IdentityForGoodHolds == Spec => IdentityForGood
<1>1. Init => LinksInv
  BY DEF Init, LinksInv
<1>2. ASSUME Inv, LinksInv, [Next]_vars,
             NEW u \in Users, NEW e \in Emails, <<u, e>> \in link'
      PROVE  /\ LinkedTo(e)' = {u}
             /\ {d \in Emails : <<u, d>> \in link'} = {e}
             /\ row'[u].status # "none"
  <2>1. row[u].status # "none" => row'[u].status # "none"
    BY <1>2, RowStep DEF RowMoves
  <2>2. CASE link' = link
    BY <1>2, <2>1, <2>2 DEF LinksInv, LinkedTo
  <2>3. ASSUME NEW v \in Users, NEW f \in Emails,
               link' = link \cup {<<v, f>>}, LinkedTo(f) = {},
               \A d \in Emails : <<v, d>> \notin link,
               row'[v].status # "none"
        PROVE  /\ LinkedTo(e)' = {u}
               /\ {d \in Emails : <<u, d>> \in link'} = {e}
               /\ row'[u].status # "none"
    <3>1. CASE u = v /\ e = f
      BY <2>3, <3>1 DEF LinkedTo
    <3>2. CASE ~ (u = v /\ e = f)
      <4>1. <<u, e>> \in link
        BY <1>2, <2>3, <3>2
      <4>2. /\ LinkedTo(e) = {u} /\ {d \in Emails : <<u, d>> \in link} = {e}
            /\ row[u].status # "none"
        BY <1>2, <4>1 DEF LinksInv
      <4>3. u # v /\ e # f
        BY <2>3, <4>1, <4>2
      <4> QED BY <2>1, <2>3, <4>2, <4>3 DEF LinkedTo
    <3> QED BY <3>1, <3>2
  <2> QED BY <1>2, <2>2, <2>3, LinkStep
<1>3. Inv /\ LinksInv /\ [Next]_vars => LinksInv'
  BY <1>2 DEF LinksInv
<1>4. Inv /\ LinksInv /\ [Next]_vars => link \subseteq link'
  BY LinkStep
<1>5. Inv /\ LinksInv /\ [Next]_vars
        => [\A u \in Users, e \in Emails :
              <<u, e>> \in link =>
                /\ LinkedTo(e)' = {u}
                /\ {d \in Emails : <<u, d>> \in link'} = {e}]_vars
  BY <1>2, <1>4
<1> QED BY <1>1, <1>3, <1>5, Invariant, PTL DEF Spec, IdentityForGood

(***************************************************************************)
(* The hourly limit of resent codes is checked when a request begins and   *)
(* what it counts is written by Issue.  By how much overlapping requests   *)
(* can exceed it is known all the same.                                    *)
(***************************************************************************)

Resent(u) ==
  {k \in DOMAIN code : code[k].user = u /\ code[k].kind = "verify" /\ code[k].again}

Resends(q, u) ==
  q.pc \in {"close", "issue"} /\ q.kind = "verify" /\ q.again /\ q.user = u

Resending(u) == {r \in Requests : Resends(request[r], u)}

ResendInv ==
  \A u \in Users :
    Cardinality(Resent(u)) + Cardinality(Resending(u))
      < ResendLimit + Cardinality(Requests)

(* One element leaves a set and one comes to another: the sum is kept.     *)
LEMMA OneGoesOver ==
  ASSUME NEW S, NEW T, IsFiniteSet(S), IsFiniteSet(T), NEW x, NEW y \in T,
         NEW S2 \in SUBSET (S \cup {x}), NEW T2 \in SUBSET (T \ {y}),
         NEW b \in Nat, Cardinality(S) + Cardinality(T) < b
  PROVE  Cardinality(S2) + Cardinality(T2) < b
<1>1. /\ IsFiniteSet(S \cup {x}) /\ Cardinality(S) \in Nat
      /\ Cardinality(S \cup {x}) \in {Cardinality(S), Cardinality(S) + 1}
  BY FS_AddElement, FS_CardinalityType
<1>2. /\ IsFiniteSet(T \ {y}) /\ Cardinality(T \ {y}) = Cardinality(T) - 1
      /\ Cardinality(T) \in Nat
  BY FS_RemoveElement, FS_CardinalityType
<1>3. /\ IsFiniteSet(S2) /\ Cardinality(S2) <= Cardinality(S \cup {x})
      /\ IsFiniteSet(T2) /\ Cardinality(T2) <= Cardinality(T \ {y})
  BY <1>1, <1>2, FS_Subset
<1>4. Cardinality(S2) \in Nat /\ Cardinality(T2) \in Nat
  BY <1>3, FS_CardinalityType
<1> QED BY <1>1, <1>2, <1>3, <1>4

LEMMA NeitherGrows ==
  ASSUME NEW S, NEW T, IsFiniteSet(S), IsFiniteSet(T),
         NEW S2 \in SUBSET S, NEW T2 \in SUBSET T,
         NEW b \in Nat, Cardinality(S) + Cardinality(T) < b
  PROVE  Cardinality(S2) + Cardinality(T2) < b
<1>1. /\ IsFiniteSet(S2) /\ Cardinality(S2) <= Cardinality(S)
      /\ IsFiniteSet(T2) /\ Cardinality(T2) <= Cardinality(T)
  BY FS_Subset
<1>2. /\ Cardinality(S) \in Nat /\ Cardinality(S2) \in Nat
      /\ Cardinality(T) \in Nat /\ Cardinality(T2) \in Nat
  BY <1>1, FS_CardinalityType
<1> QED BY <1>1, <1>2

(* Only Resend begins to send a code again, and only CloseOpen goes on     *)
(* with it.                                                                *)
LEMMA ResendBegins ==
  ASSUME Inv, [Next]_vars, NEW r \in Requests, NEW u \in Users,
         Resends(request'[r], u)
  PROVE  Resends(request[r], u) \/ Resend(r, u)
<1> DEFINE Done == Resends(request[r], u) \/ Resend(r, u)
<1>0. /\ request \in [Requests -> Request]
      /\ \A s \in Requests : request[s] \in Request
  BY DEF Inv, TypeOK
<1>1. ASSUME NEW s \in Requests, NEW q, ~ Resends(q, u), Goes(s, q) PROVE Done
  BY <1>0, <1>1 DEF Goes
<1>2. ASSUME NEW s \in Requests, Ends(s) PROVE Done
  BY <1>1, <1>2 DEF Ends, Idle, Resends
<1>3. ASSUME NEW s \in Requests, NEW q, q.pc \notin {"close", "issue"}, Goes(s, q)
      PROVE  Done
  BY <1>1, <1>3 DEF Resends
<1>4. ASSUME NEW s \in Requests, NEW v \in Users, Resend(s, v) PROVE Done
  <2>1. CASE s = r /\ v = u
    BY <1>4, <2>1
  <2>2. CASE s = r /\ v # u
    BY <1>1, <1>4, <2>2 DEF Resend, Begins, Issuing, Resends
  <2>3. CASE s # r
    BY <1>0, <1>4, <2>3 DEF Resend, Begins, Goes
  <2> QED BY <2>1, <2>2, <2>3
<1>5. ASSUME NEW s \in Requests, NEW v \in Users,
             \/ RegisterInsert(s, v)
             \/ \E e \in Emails : RequestEmailChange(s, v, e)
      PROVE  Done
  <2>1. ~ Resends(Issuing("close", v, "verify", request[s].to, FALSE), u)
        /\ \A e : ~ Resends(Issuing("close", v, "email", e, FALSE), u)
    BY DEF Issuing, Resends
  <2> QED
    BY <1>1, <1>2, <1>5, <2>1 DEF RegisterInsert, RequestEmailChange, Begins
<1>6. ASSUME NEW s \in Requests, NEW v \in Users, Deliver(s, v) PROVE Done
  <2>1. ~ Resends(Issuing("close", v, "reset", row[v].email, FALSE), u)
    BY DEF Issuing, Resends
  <2> QED BY <1>1, <1>6, <2>1 DEF Deliver, Begins
<1>7. ASSUME NEW s \in Requests, NEW v \in Users,
             \/ Login(s, v) \/ LogoutStart(s, v) \/ ChangePassword(s, v)
             \/ RefreshStart(s, v) \/ Provision(s, v)
      PROVE  Done
  BY <1>3, <1>7
     DEF Login, LogoutStart, ChangePassword, RefreshStart, Provision, Begins
<1>20. ASSUME NEW s \in Requests, NEW v \in Users,
              UpdateUser(s, v) \/ \E e \in Emails : ChangeEmail(s, v, e)
       PROVE  Done
  BY <1>3, <1>20 DEF UpdateUser, ChangeEmail, Begins
<1>21. ASSUME NEW s \in Requests, NEW e \in Emails, Invite(s, e) PROVE Done
  BY <1>3, <1>21 DEF Invite, Begins
<1>22. ASSUME NEW s \in Requests,
              Assign(s) \/ SetPassword(s) \/ \E v \in Users : InviteInsert(s, v)
       PROVE  Done
  BY <1>2, <1>22 DEF Assign, SetPassword, InviteInsert
<1>8. ASSUME NEW s \in Requests, NEW v \in Users, NEW kind \in Kinds,
             NEW e \in Emails \cup {NoEmail}, Consume(s, v, kind, e)
      PROVE  Done
  BY <1>3, <1>8 DEF Consume, Begins
<1>9. ASSUME NEW s \in Requests, CloseOpen(s) PROVE Done
  <2> DEFINE q == [request[s] EXCEPT !.pc = "issue"]
  <2>1. /\ Goes(s, q) /\ request[s].pc = "close"
        /\ q = [pc |-> "issue", user |-> request[s].user, kind |-> request[s].kind,
                to |-> request[s].to, again |-> request[s].again]
    BY <1>0, <1>9, RequestForms DEF CloseOpen, At
  <2>2. Resends(q, u) => Resends(request[s], u)
    BY <2>1 DEF Resends
  <2> HIDE DEF q
  <2>3. CASE s = r
    BY <1>0, <2>1, <2>2, <2>3 DEF Goes
  <2>4. CASE s # r
    BY <1>0, <2>1, <2>4 DEF Goes
  <2> QED BY <2>3, <2>4
<1>10. ASSUME NEW s \in Requests, Mark(s) PROVE Done
  <2>1. /\ \A kind \in Kinds : After(kind) \notin {"close", "issue"}
        /\ code[request[s].code].kind \in Kinds
    <3>1. request[s].code \in DOMAIN code
      BY <1>10 DEF Mark, At, Inv, Sound, RequestSound
    <3> QED BY <3>1, Finite, CodeForms DEF After, Kinds, Inv
  <2> QED BY <1>2, <1>3, <1>10, <2>1 DEF Mark
<1>11. ASSUME NEW s \in Requests,
              \/ Issue(s) \/ UpdatePassword(s) \/ UpdateEmail(s) \/ Persist(s)
              \/ Rotate(s) \/ Logout(s)
       PROVE  Done
  BY <1>2, <1>11 DEF Issue, UpdatePassword, UpdateEmail, Persist, Rotate, Logout
<1>12. ASSUME NEW s \in Requests, MarkVerified(s) \/ Link(s) PROVE Done
  BY <1>2, <1>3, <1>12 DEF MarkVerified, Link
<1>13. ASSUME NEW s \in Requests, Vouch(s) PROVE Done
  <2>1. [request[s] EXCEPT !.pc = "link"].pc = "link"
    BY RequestForms, <1>0, <1>13 DEF Vouch, At
  <2> QED BY <1>2, <1>3, <1>13, <2>1 DEF Vouch
<1>14. ASSUME NEW s \in Requests, NEW e \in Emails,
              RegisterStart(s, e) \/ GoogleSignIn(s, e)
       PROVE  Done
  BY <1>3, <1>14 DEF RegisterStart, GoogleSignIn, Begins
<1>15. ASSUME NEW s \in Requests, GoogleLookup(s) PROVE Done
  BY <1>2, <1>3, <1>15 DEF GoogleLookup
<1>16. ASSUME \/ UNCHANGED vars
              \/ \E v \in Users : ForgotPassword(v) \/ DeleteAccount(v)
       PROVE  Done
  BY <1>16 DEF ForgotPassword, DeleteAccount, vars
<1>17. ASSUME Crash PROVE Done
  <2>1. request'[r] = Idle
    BY <1>17 DEF Crash
  <2> QED BY <2>1 DEF Idle, Resends
<1>18. ASSUME NEW k \in Slips, Expire(k) PROVE Done
  BY <1>18 DEF Expire
<1> HIDE DEF Done
<1>19. Done
  BY <1>4, <1>5, <1>6, <1>7, <1>8, <1>9, <1>10, <1>11, <1>12, <1>13, <1>14, <1>15,
     <1>16, <1>17, <1>18, <1>20, <1>21, <1>22 DEF Next
<1> QED BY <1>19 DEF Done

(* Only Issue adds a code that was sent again, the one it carries.         *)
LEMMA ResentStep ==
  ASSUME Inv, [Next]_vars, NEW u \in Users
  PROVE  \/ Resent(u)' \subseteq Resent(u)
         \/ \E r \in Requests :
              /\ Issue(r) /\ Resends(request[r], u)
              /\ Resent(u)' \subseteq Resent(u) \cup {Len(code) + 1}
<1>0. TypeOK /\ \A k \in DOMAIN code : code[k] \in Code
  BY Finite DEF Inv
<1>1. ASSUME DOMAIN code' = DOMAIN code,
             \A k \in DOMAIN code : /\ code'[k].user = code[k].user
                                    /\ code'[k].kind = code[k].kind
                                    /\ code'[k].again = code[k].again
      PROVE  Resent(u)' \subseteq Resent(u)
  BY <1>1 DEF Resent
<1>2. \A c \in Code :
        /\ Closed(c).user = c.user /\ Closed(c).kind = c.kind /\ Closed(c).again = c.again
        /\ Aged(c).user = c.user /\ Aged(c).kind = c.kind /\ Aged(c).again = c.again
        /\ Accepted(c).user = c.user /\ Accepted(c).kind = c.kind
        /\ Accepted(c).again = c.again
  BY DEF Code, Closed, Aged, Accepted
<1>3. ASSUME NEW r \in Requests, CloseOpen(r) PROVE Resent(u)' \subseteq Resent(u)
  <2>1. /\ DOMAIN code' = DOMAIN code
        /\ \A k \in DOMAIN code : code'[k] = code[k] \/ code'[k] = Closed(code[k])
    BY <1>0, <1>3, CloseOpenEffect
  <2> QED BY <1>0, <1>1, <1>2, <2>1
<1>4. ASSUME NEW r \in Requests, Mark(r) PROVE Resent(u)' \subseteq Resent(u)
  <2> DEFINE k == request[r].code
  <2>1. k \in DOMAIN code
    BY <1>4 DEF Mark, At, Inv, Sound, RequestSound
  <2>2. CASE Unused(k)
    <3>1. code' = [code EXCEPT ![k] = Accepted(code[k])] /\ Accepted(code[k]) \in Code
      BY <1>0, <1>4, <2>1, <2>2, CodeForms DEF Mark
    <3>2. /\ DOMAIN code' = DOMAIN code /\ code'[k] = Accepted(code[k])
          /\ \A j \in DOMAIN code \ {k} : code'[j] = code[j]
      BY <1>0, <2>1, <3>1, ReplacedEffect
    <3> QED BY <1>0, <1>1, <1>2, <2>1, <3>2
  <2>3. CASE ~ Unused(k)
    BY <1>1, <1>4, <2>3 DEF Mark
  <2> QED BY <2>2, <2>3
<1>5. ASSUME NEW k \in Slips, Expire(k) PROVE Resent(u)' \subseteq Resent(u)
  <2>1. /\ k \in DOMAIN code /\ code' = [code EXCEPT ![k] = Aged(code[k])]
        /\ Aged(code[k]) \in Code
    BY <1>0, <1>5, CodeForms DEF Expire, Aged
  <2>2. /\ DOMAIN code' = DOMAIN code /\ code'[k] = Aged(code[k])
        /\ \A j \in DOMAIN code \ {k} : code'[j] = code[j]
    BY <1>0, <2>1, ReplacedEffect
  <2> QED BY <1>0, <1>1, <1>2, <2>1, <2>2
<1>6. ASSUME NEW r \in Requests, Issue(r)
      PROVE  \/ Resent(u)' \subseteq Resent(u)
             \/ /\ Resends(request[r], u)
                /\ Resent(u)' \subseteq Resent(u) \cup {Len(code) + 1}
  <2>1. /\ DOMAIN code' = DOMAIN code \cup {Len(code) + 1}
        /\ \A k \in DOMAIN code : code'[k] = code[k]
        /\ code'[Len(code) + 1].user = request[r].user
        /\ code'[Len(code) + 1].kind = request[r].kind
        /\ code'[Len(code) + 1].again = request[r].again
    BY <1>0, <1>6, IssueEffect
  <2> QED BY <1>6, <2>1 DEF Resent, Resends, Issue, At
<1>7. ASSUME code' = code PROVE Resent(u)' \subseteq Resent(u)
  BY <1>7 DEF Resent
<1> QED BY <1>3, <1>4, <1>5, <1>6, <1>7, OtherSteps DEF vars

LEMMA ResendStep == Inv /\ ResendInv /\ [Next]_vars => ResendInv'
<1> SUFFICES ASSUME Inv, ResendInv, [Next]_vars, NEW u \in Users
             PROVE  Cardinality(Resent(u)') + Cardinality(Resending(u)')
                      < ResendLimit + Cardinality(Requests)
  BY DEF ResendInv
<1> DEFINE b == ResendLimit + Cardinality(Requests)
<1>0. /\ b \in Nat /\ Cardinality(Requests) \in Nat
      /\ IsFiniteSet(Resent(u)) /\ IsFiniteSet(Resending(u))
      /\ Cardinality(Resent(u)) + Cardinality(Resending(u)) < b
  <2>1. Resent(u) \subseteq 1..Len(code) /\ IsFiniteSet(1..Len(code))
    BY Finite, FS_Interval DEF Inv, Resent
  <2>2. Resending(u) \subseteq Requests
    BY DEF Resending
  <2>3. Cardinality(Requests) \in Nat
    BY RequestAssumption, FS_CardinalityType
  <2> QED
    BY <2>1, <2>2, <2>3, RequestAssumption, BoundAssumption, FS_Subset DEF ResendInv
<1>1. CASE \E r \in Requests : Resend(r, u)
  <2>1. /\ Resent(u)' = Resent(u) /\ Cardinality(Resent(u)) < ResendLimit
    BY <1>1 DEF Resend, Sent, Resent
  <2>2. /\ Cardinality(Resending(u)') <= Cardinality(Requests)
        /\ IsFiniteSet(Resending(u)')
    <3>1. Resending(u)' \subseteq Requests
      BY DEF Resending
    <3> QED BY <3>1, RequestAssumption, FS_Subset
  <2>3. Cardinality(Resent(u)) \in Nat /\ Cardinality(Resending(u)') \in Nat
    BY <1>0, <2>2, FS_CardinalityType
  <2> QED BY <1>0, <2>1, <2>2, <2>3, BoundAssumption
<1>2. CASE ~ \E r \in Requests : Resend(r, u)
  <2>1. Resending(u)' \subseteq Resending(u)
    BY <1>2, ResendBegins DEF Resending
  <2>2. CASE Resent(u)' \subseteq Resent(u)
    <3> HIDE DEF b
    <3>1. Cardinality(Resent(u)') + Cardinality(Resending(u)') < b
      BY <1>0, <2>1, <2>2, NeitherGrows
    <3> QED BY <3>1 DEF b
  <2>3. ASSUME NEW r \in Requests, Issue(r), Resends(request[r], u),
               Resent(u)' \subseteq Resent(u) \cup {Len(code) + 1}
        PROVE  Cardinality(Resent(u)') + Cardinality(Resending(u)') < b
    <3>1. r \in Resending(u)
      BY <2>3 DEF Resending
    <3>2. Resending(u)' \subseteq Resending(u) \ {r}
      <4>1. ~ Resends(request'[r], u)
        BY <2>3 DEF Issue, Ends, Goes, Idle, Resends, Inv, TypeOK
      <4> QED BY <2>1, <4>1 DEF Resending
    <3> DEFINE k == Len(code) + 1
               S2 == Resent(u)'
               T2 == Resending(u)'
    <3>3. S2 \in SUBSET (Resent(u) \cup {k}) /\ T2 \in SUBSET (Resending(u) \ {r})
      BY <2>3, <3>2
    <3> HIDE DEF b, k, S2, T2
    <3>4. Cardinality(S2) + Cardinality(T2) < b
      BY <1>0, <3>1, <3>3, OneGoesOver
    <3> QED BY <3>4 DEF S2, T2
  <2> QED BY <2>2, <2>3, ResentStep
<1> QED BY <1>1, <1>2

(* An account is sent fewer codes again than the hour's limit and the      *)
(* requests in progress at once together: with one request at a time, the  *)
(* limit holds.                                                            *)
ResendOverrunBounded ==
  \A u \in Users :
    Sent(u, "verify", TRUE) < ResendLimit + Cardinality(Requests)

THEOREM ResendOverrunBoundedHolds ==
  ASSUME ResendLimit > 0
  PROVE  Spec => []ResendOverrunBounded
<1>0. Cardinality(Requests) \in Nat
  BY RequestAssumption, FS_CardinalityType
<1>1. Init => ResendInv
  <2> SUFFICES ASSUME Init, NEW u \in Users
               PROVE  Cardinality(Resent(u)) + Cardinality(Resending(u))
                        < ResendLimit + Cardinality(Requests)
    BY DEF ResendInv
  <2>1. Resent(u) = {} /\ Resending(u) = {}
    BY DEF Init, Resent, Resending, Resends, Idle
  <2> QED BY <1>0, <2>1, FS_EmptySet, BoundAssumption
<1>2. Inv /\ ResendInv => ResendOverrunBounded
  <2> SUFFICES ASSUME Inv, ResendInv, NEW u \in Users
               PROVE  Sent(u, "verify", TRUE) < ResendLimit + Cardinality(Requests)
    BY DEF ResendOverrunBounded
  <2>1. Sent(u, "verify", TRUE) = Cardinality(Resent(u))
    BY DEF Sent, Resent
  <2>2. Cardinality(Resent(u)) \in Nat /\ Cardinality(Resending(u)) \in Nat
    <3>1. Resent(u) \subseteq 1..Len(code) /\ IsFiniteSet(1..Len(code))
      BY Finite, FS_Interval DEF Inv, Resent
    <3>2. Resending(u) \subseteq Requests
      BY DEF Resending
    <3> QED BY <3>1, <3>2, RequestAssumption, FS_Subset, FS_CardinalityType
  <2>3. Cardinality(Resent(u)) + Cardinality(Resending(u))
          < ResendLimit + Cardinality(Requests)
    BY DEF ResendInv
  <2>4. Cardinality(Resent(u)) < ResendLimit + Cardinality(Requests)
    BY <1>0, <2>2, <2>3, BoundAssumption
  <2> QED BY <2>1, <2>4, Zenon
<1> QED BY <1>1, <1>2, ResendStep, Invariant, PTL DEF Spec
=============================================================================
