-------------------------- MODULE AccountsProofs ----------------------------
(***************************************************************************)
(* Proofs about Accounts for any users, addresses, requests, limits and    *)
(* lives of the cache's entries.                                           *)
(***************************************************************************)
EXTENDS Accounts, TokenRotation, TLAPS

Request ==
    [op : {"idle"}]
    \cup [op : {"verify_send", "pend", "code"}, u : Users, email : Emails]
    \cup [op : {"verify_save"}, u : Users, n : Nat]
    \cup [op : {"resend", "mark"}, u : Users]
    \cup [op : {"save"}, u : Users, email : Emails, n : Nat]

Address == [val : Emails \cup {None}, ttl : 0..PendingTtl]
Code == [val : Nat \cup {None}, ttl : 0..OtpTtl]
Window == [n : Nat, ttl : 0..Period]

Typed ==
    /\ user \in [Users -> Row \cup {None}]
    /\ session \subseteq {u \in Users : Exists(u)}
    /\ pending \in [Users -> Address] /\ code \in [Users -> Code] /\ otp \in [Users -> Code]
    /\ completed \in [Users -> 0..CompletedTtl] /\ since \in [Users -> 0..CompletedTtl]
    /\ rate \in [Users -> [Keys -> Window]]
    /\ \A u \in Users, k \in Keys : /\ rate[u][k].ttl > 0 => rate[u][k].n > 0
                                    /\ rate[u][k].n <= LimitOf(k) + 1
    /\ sent \in Seq(Emails) /\ Len(sent) <= MaxCodes
    /\ req \in [Requests -> Request]
    /\ proven \in [Users -> SUBSET Emails]
    /\ mixed \subseteq Users /\ disturbed \subseteq Users
    /\ tries \in [1..MaxCodes -> Nat]

\* What the invariant says of a user.  Whom there is not, there is nothing of.
\* Every code that lives was sent: the one to confirm an address, as long as that
\* is not confirmed, to it; the one to change an address to the new address, but
\* for users known to have one that was not.
UserFits(u) ==
    /\ ~Exists(u) => ~Alive(pending[u]) /\ ~Alive(otp[u]) /\ since[u] = 0
    /\ Alive(pending[u]) => pending[u].val \in Emails
    /\ Alive(otp[u]) =>
         /\ otp[u].val \in 1..Len(sent)
         /\ ~user[u].email_verified => sent[otp[u].val] = user[u].email
    /\ Alive(code[u]) =>
         /\ code[u].val \in 1..Len(sent)
         /\ Alive(pending[u]) => sent[code[u].val] = pending[u].val \/ u \in mixed
    /\ Exists(u) /\ user[u].email_verified => user[u].email \in proven[u] \/ u \in mixed

\* What it says of a request, with what the request has read.
RequestFits(q) ==
    /\ q # Idle => Exists(q.u)
    /\ q.op = "verify_send" =>
         user[q.u].email_verified \/ q.email = user[q.u].email
    /\ q.op = "verify_save" =>
         /\ q.n \in 1..Len(sent)
         /\ ~user[q.u].email_verified => sent[q.n] = user[q.u].email
    /\ q.op = "save" =>
         /\ q.n \in 1..Len(sent)
         /\ sent[q.n] = q.email \/ q.u \in mixed

\* The inductive invariant of what was proven.
ProvenInv == /\ Typed
             /\ \A u \in Users : UserFits(u)
             /\ \A r \in Requests : RequestFits(req[r])

\* Of a user whose requests did not overlap: after a change there is a mark or a
\* request about to set it, no change begins, and what is under way is the change
\* that was made.
Calm(u) ==
    /\ \A q, r \in Requests :
         req[q] # Idle /\ req[r] # Idle /\ req[q].u = u /\ req[r].u = u => q = r
    /\ since[u] > 0 =>
         /\ \/ completed[u] >= since[u]
            \/ \E r \in Requests : req[r].op = "mark" /\ req[r].u = u
         /\ Alive(pending[u]) => pending[u].val = user[u].email
         /\ \A r \in Requests : req[r].op = "pend" => req[r].u # u
    /\ \A r \in Requests : req[r].op = "save" /\ req[r].u = u =>
         /\ since[u] > 0 => req[r].email = user[u].email
         /\ Alive(pending[u]) => pending[u].val = req[r].email

OneAtATime == \A u \in Users \ disturbed : Calm(u)

SpacedInv == ProvenInv /\ OneAtATime

\* The two kinds of codes, each with its limiter.
Kinds == {"verify_email", "change_email"}
CodeOf(u, k) == IF k = "verify_email" THEN otp[u] ELSE code[u]
Counted(w) == IF w.n <= Limit THEN w.n ELSE Limit

\* How often a code that lives for another a ticks has been tried: a window that
\* ends before the code was opened before there was the code.
Within(x, w, a) ==
    IF w.ttl = 0 THEN x + 1 <= Limit
    ELSE IF w.ttl >= a THEN x + 1 <= Limit + Counted(w)
    ELSE x + 1 <= Counted(w)

TriesWithin ==
    /\ \A n \in 1..MaxCodes : n > Len(sent) => tries[n] = 0
    /\ \A u, v \in Users, k, l \in Kinds :
         Alive(CodeOf(u, k)) /\ Alive(CodeOf(v, l)) /\ CodeOf(u, k).val = CodeOf(v, l).val
           => u = v /\ k = l
    /\ \A u \in Users, k \in Kinds : Alive(CodeOf(u, k)) =>
         Within(tries[CodeOf(u, k).val], rate[u][k], CodeOf(u, k).ttl)

TriesInv == ProvenInv /\ TriesWithin /\ TriesBounded

-----------------------------------------------------------------------------
(* What a request, a limiter and an entry are                              *)

LEMMA RequestFields ==
    ASSUME NEW q \in Request
    PROVE  /\ q.op = "idle" <=> q = Idle
           /\ q # Idle => q.u \in Users
           /\ q.op \in {"verify_send", "pend", "code", "save"} => q # Idle /\ q.email \in Emails
           /\ q.op \in {"verify_save", "save"} => q # Idle /\ q.n \in Nat
           /\ q.op \in {"resend", "mark"} => q # Idle
  <1>1. CASE q \in [op : {"idle"}]
    BY <1>1 DEF Idle
  <1>2. CASE q \in [op : {"verify_send", "pend", "code"}, u : Users, email : Emails]
    BY <1>2 DEF Idle
  <1>3. CASE q \in [op : {"verify_save"}, u : Users, n : Nat]
    BY <1>3 DEF Idle
  <1>4. CASE q \in [op : {"resend", "mark"}, u : Users]
    BY <1>4 DEF Idle
  <1>5. CASE q \in [op : {"save"}, u : Users, email : Emails, n : Nat]
    BY <1>5 DEF Idle
  <1>. QED
    BY <1>1, <1>2, <1>3, <1>4, <1>5 DEF Request

LEMMA RequestsMade ==
    ASSUME NEW u \in Users
    PROVE  /\ Idle \in Request
           /\ \A e \in Emails : /\ [op |-> "verify_send", u |-> u, email |-> e] \in Request
                               /\ [op |-> "pend", u |-> u, email |-> e] \in Request
                               /\ [op |-> "code", u |-> u, email |-> e] \in Request
           /\ \A n \in Nat : [op |-> "verify_save", u |-> u, n |-> n] \in Request
           /\ [op |-> "resend", u |-> u] \in Request
           /\ [op |-> "mark", u |-> u] \in Request
           /\ \A e \in Emails, n \in Nat :
                [op |-> "save", u |-> u, email |-> e, n |-> n] \in Request
  BY DEF Request, Idle

LEMMA HitTyped ==
    ASSUME Typed, NEW u \in Users, NEW k \in Keys, Hit(u, k)
    PROVE  /\ rate' \in [Users -> [Keys -> Window]]
           /\ \A v \in Users, l \in Keys : /\ rate'[v][l].ttl > 0 => rate'[v][l].n > 0
                                           /\ rate'[v][l].n <= LimitOf(l) + 1
  <1>1. Limit \in Nat \ {0} /\ SendLimit \in Nat \ {0} /\ Period \in Nat \ {0}
    BY AccountsAssumption
  <1>2. LimitOf(k) \in Nat \ {0}
    BY <1>1 DEF LimitOf
  <1>3. /\ rate[u][k] \in Window /\ rate \in [Users -> [Keys -> Window]]
        /\ rate[u][k].n <= LimitOf(k) + 1
        /\ rate[u][k].ttl > 0 => rate[u][k].n > 0
    BY DEF Typed
  <1>. DEFINE w == rate[u][k]
              x == IF w.ttl = 0 THEN [n |-> 1, ttl |-> Period]
                   ELSE IF w.n = LimitOf(k) THEN [n |-> w.n + 1, ttl |-> Period]
                   ELSE IF w.n < LimitOf(k) THEN [n |-> w.n + 1, ttl |-> w.ttl] ELSE w
  <1>4. x \in Window /\ x.n > 0 /\ x.n <= LimitOf(k) + 1
    BY <1>1, <1>2, <1>3 DEF Window
  <1>5. rate' = [rate EXCEPT ![u][k] = x]
    BY DEF Hit
  <1>. HIDE DEF x
  <1>6. rate' \in [Users -> [Keys -> Window]]
    BY <1>3, <1>4, <1>5
  <1>7. \A v \in Users, l \in Keys : rate'[v][l] = IF v = u /\ l = k THEN x ELSE rate[v][l]
    BY <1>3, <1>5
  <1>. QED
    BY <1>4, <1>6, <1>7 DEF Typed

LEMMA GoesOnTyped ==
    ASSUME Typed, NEW r \in Requests, NEW next \in Request, next.u \in Users, GoesOn(r, next)
    PROVE  /\ req' \in [Requests -> Request]
           /\ disturbed' \subseteq Users
  BY DEF Typed, GoesOn

LEMMA InitProven == Init => ProvenInv
  <1>. SUFFICES ASSUME Init PROVE ProvenInv
    OBVIOUS
  <1>1. Gone \in Address /\ Gone \in Code /\ ~Alive(Gone) /\ [n |-> 0, ttl |-> 0] \in Window
    BY AccountsAssumption DEF Gone, Address, Code, Window, Alive
  <1>2. sent \in Seq(Emails) /\ Len(sent) = 0
    BY DEF Init
  <1>3. Idle \in Request /\ Idle.op = "idle"
    BY DEF Request, Idle
  <1>4. \A k \in Keys : LimitOf(k) \in Nat
    BY AccountsAssumption DEF LimitOf
  <1>5. Typed
    <2>1. rate \in [Users -> [Keys -> Window]]
      BY <1>1 DEF Init
    <2>2. \A u \in Users, k \in Keys : rate[u][k].ttl = 0 /\ rate[u][k].n = 0
      BY DEF Init
    <2>3. /\ pending \in [Users -> Address] /\ code \in [Users -> Code]
          /\ otp \in [Users -> Code]
      BY <1>1 DEF Init
    <2>4. Len(sent) <= MaxCodes
      BY <1>2, AccountsAssumption
    <2>5. tries \in [1..MaxCodes -> Nat]
      BY DEF Init
    <2>6. /\ completed \in [Users -> 0..CompletedTtl] /\ since \in [Users -> 0..CompletedTtl]
      BY AccountsAssumption DEF Init
    <2>7. \A u \in Users, k \in Keys : /\ rate[u][k].ttl > 0 => rate[u][k].n > 0
                                      /\ rate[u][k].n <= LimitOf(k) + 1
      BY <1>4, <2>2
    <2>8. req \in [Requests -> Request]
      BY <1>3 DEF Init
    <2>. QED
      BY <1>2, <2>1, <2>3, <2>4, <2>5, <2>6, <2>7, <2>8 DEF Init, Typed
  <1>6. \A u \in Users : UserFits(u)
    BY <1>1 DEF Init, UserFits, Exists
  <1>7. \A r \in Requests : RequestFits(req[r])
    BY <1>3 DEF Init, RequestFits
  <1>. QED
    BY <1>5, <1>6, <1>7 DEF ProvenInv

-----------------------------------------------------------------------------
(* What stays                                                              *)

\* Users are not deleted, an address is not changed before it is confirmed and is
\* not unconfirmed, and what was sent stays sent.
Steady ==
    /\ \A u \in Users : Exists(u) =>
         /\ Exists(u)'
         /\ ~user'[u].email_verified => ~user[u].email_verified /\ user'[u].email = user[u].email
    /\ Len(sent') >= Len(sent) /\ \A i \in 1..Len(sent) : sent'[i] = sent[i]
    /\ mixed \subseteq mixed'

LEMMA SteadyByUnchanged ==
    ASSUME Typed, UNCHANGED <<user, sent>>, mixed \subseteq mixed'
    PROVE  Steady
  BY DEF Typed, Steady, Exists

LEMMA SteadyBySending ==
    ASSUME Typed, NEW e \in Emails, sent' = Append(sent, e), UNCHANGED user,
           mixed \subseteq mixed'
    PROVE  /\ Steady
           /\ sent' \in Seq(Emails) /\ Len(sent') = Len(sent) + 1 /\ sent'[Len(sent')] = e
  <1>1. /\ sent' \in Seq(Emails) /\ Len(sent') = Len(sent) + 1 /\ sent'[Len(sent')] = e
        /\ Len(sent) \in Nat
        /\ \A i \in 1..Len(sent) : sent'[i] = sent[i]
    BY DEF Typed
  <1>. QED
    BY <1>1 DEF Steady, Exists

LEMMA RequestKept ==
    ASSUME ProvenInv, Steady, NEW r \in Requests, req'[r] = req[r]
    PROVE  RequestFits(req[r])'
  <1>1. req[r] \in Request /\ RequestFits(req[r]) /\ Len(sent) \in Nat /\ Len(sent') \in Nat
    BY DEF ProvenInv, Typed, Steady
  <1>2. req[r] # Idle => req[r].u \in Users
    BY <1>1, RequestFields
  <1>3. req[r].op \in {"verify_send", "verify_save", "save"} => req[r] # Idle
    BY <1>1, RequestFields
  <1>. QED
    BY <1>1, <1>2, <1>3 DEF RequestFits, Steady

LEMMA UserKept ==
    ASSUME ProvenInv, Steady, NEW u \in Users, user'[u] = user[u], pending'[u] = pending[u],
           code'[u] = code[u], otp'[u] = otp[u], since'[u] = since[u],
           proven[u] \subseteq proven'[u]
    PROVE  UserFits(u)'
  <1>1. UserFits(u) /\ Len(sent) \in Nat /\ Len(sent') \in Nat
    BY DEF ProvenInv, Typed, Steady
  <1>. QED
    BY <1>1 DEF UserFits, Steady, Alive, Exists

-----------------------------------------------------------------------------
(* The steps of users and the starts of requests                           *)

LEMMA RowsMade ==
    ASSUME NEW n \in Emails \cup Names, NEW e \in Emails \cup {None}, NEW s \in BOOLEAN
    PROVE  [username |-> n, email |-> e, email_verified |-> FALSE, superuser |-> s] \in Row
  BY DEF Row

LEMMA CreateProven ==
    ASSUME ProvenInv, NEW u \in Users, NEW n \in Emails \cup Names,
           NEW e \in Emails \cup {None}, NEW s \in BOOLEAN, Create(u, n, e, s),
           session' = session \/ session' = session \cup {u}
    PROVE  ProvenInv' /\ Steady
  <1>. DEFINE row == [username |-> n, email |-> e, email_verified |-> FALSE, superuser |-> s]
  <1>1. row \in Row /\ ~row.email_verified
    BY RowsMade
  <1>2. ~Exists(u) /\ user' = [user EXCEPT ![u] = row]
    BY DEF Create
  <1>. HIDE DEF row
  <1>3. row # None
    BY <1>1, RowAssumption
  <1>4. Typed /\ user \in [Users -> Row \cup {None}]
    BY DEF ProvenInv, Typed
  <1>5. user' \in [Users -> Row \cup {None}] /\ user'[u] = row
        /\ \A v \in Users \ {u} : user'[v] = user[v]
    BY <1>1, <1>2, <1>4
  <1>6. UNCHANGED <<pending, code, completed, otp, rate, sent, req, proven, mixed, disturbed,
                    since, tries>>
    BY DEF Create, cache, ghosts
  <1>7. Steady
    BY <1>2, <1>4, <1>5, <1>6 DEF Steady, Exists, Typed
  <1>8. Typed'
    <2>1. session' \subseteq {v \in Users : Exists(v)'}
      BY <1>3, <1>4, <1>5 DEF Typed, Exists
    <2>. QED
      BY <1>4, <1>5, <1>6, <2>1 DEF Typed
  <1>9. \A v \in Users : UserFits(v)'
    <2>1. UserFits(u) /\ Exists(u)' /\ ~user'[u].email_verified
      BY <1>1, <1>3, <1>5 DEF ProvenInv, Exists
    <2>2. UserFits(u)'
      BY <1>2, <1>6, <2>1 DEF UserFits, Alive
    <2>3. ASSUME NEW v \in Users \ {u} PROVE UserFits(v)'
      BY <1>5, <1>6, <1>7, UserKept
    <2>. QED
      BY <2>2, <2>3
  <1>10. \A r \in Requests : RequestFits(req[r])'
    BY <1>6, <1>7, RequestKept
  <1>. QED
    BY <1>7, <1>8, <1>9, <1>10 DEF ProvenInv

\* A request comes in, is counted, and ends or goes on.
LEMMA StartProven ==
    ASSUME ProvenInv, NEW u \in Users, NEW k \in Keys, Hit(u, k),
           UNCHANGED <<user, session, cache, sent, proven, mixed, since>>,
           tries' \in [1..MaxCodes -> Nat], NEW r \in Requests,
           \/ UNCHANGED <<req, disturbed>>
           \/ \E next \in Request : next.u = u /\ RequestFits(next) /\ GoesOn(r, next)
    PROVE  ProvenInv' /\ Steady
  <1>1. Typed /\ UNCHANGED <<pending, code, completed, otp>>
    BY DEF ProvenInv, cache
  <1>2. Steady
    BY <1>1, SteadyByUnchanged
  <1>3. /\ rate' \in [Users -> [Keys -> Window]]
        /\ \A v \in Users, l \in Keys : /\ rate'[v][l].ttl > 0 => rate'[v][l].n > 0
                                        /\ rate'[v][l].n <= LimitOf(l) + 1
    BY <1>1, HitTyped
  <1>4. \A v \in Users : UserFits(v)'
    BY <1>1, <1>2, UserKept
  <1>5. CASE UNCHANGED <<req, disturbed>>
    <2>1. Typed'
      BY <1>1, <1>3, <1>5 DEF Typed, Exists
    <2>2. \A s \in Requests : RequestFits(req[s])'
      BY <1>2, <1>5, RequestKept
    <2>. QED
      BY <1>2, <1>4, <2>1, <2>2 DEF ProvenInv
  <1>6. CASE \E next \in Request : next.u = u /\ RequestFits(next) /\ GoesOn(r, next)
    <2>1. PICK next \in Request : next.u = u /\ RequestFits(next) /\ GoesOn(r, next)
      BY <1>6
    <2>2. req' \in [Requests -> Request] /\ disturbed' \subseteq Users
      BY <1>1, <2>1, GoesOnTyped
    <2>3. Typed'
      BY <1>1, <1>3, <2>2 DEF Typed, Exists
    <2>4. req'[r] = next /\ \A s \in Requests \ {r} : req'[s] = req[s]
      BY <1>1, <2>1 DEF Typed, GoesOn
    <2>5. RequestFits(req[r])'
      BY <2>1, <2>4 DEF RequestFits, Exists
    <2>6. \A s \in Requests \ {r} : RequestFits(req[s])'
      BY <1>2, <2>4, RequestKept
    <2>. QED
      BY <1>2, <1>4, <2>3, <2>5, <2>6 DEF ProvenInv
  <1>. QED
    BY <1>5, <1>6

LEMMA TooManyProven ==
    ASSUME ProvenInv, NEW r \in Requests, NEW u \in Users, NEW k \in Keys, NEW op,
           TooMany(r, op, u, k)
    PROVE  ProvenInv' /\ Steady
  <1>1. /\ Hit(u, k) /\ UNCHANGED <<user, session, cache, sent, proven, mixed, since>>
        /\ UNCHANGED <<req, disturbed>> /\ tries' = tries
    BY DEF TooMany, ghosts
  <1>2. tries' \in [1..MaxCodes -> Nat]
    BY <1>1 DEF ProvenInv, Typed
  <1>. QED
    BY <1>1, <1>2, StartProven

\* Who has a token exists.
LEMMA CurrentUserExists ==
    ASSUME ProvenInv, NEW u \in Users, NEW r \in Requests, NEW op, CurrentUser(r, op, u)
    PROVE  Exists(u) /\ user[u] \in Row
  BY DEF CurrentUser, ProvenInv, Typed, Exists

-----------------------------------------------------------------------------
(* Starts of requests                                                      *)

LEMMA TriesTyped ==
    ASSUME Typed, NEW n \in 1..Len(sent), Compared(n)
    PROVE  tries' \in [1..MaxCodes -> Nat]
  <1>0. /\ MaxCodes \in Nat /\ Len(sent) \in Nat /\ Len(sent) <= MaxCodes
        /\ tries \in [1..MaxCodes -> Nat]
    BY AccountsAssumption DEF Typed
  <1>1. n \in 1..MaxCodes
    BY <1>0
  <1>2. tries \in [1..MaxCodes -> Nat] /\ tries[n] + 1 \in Nat
    BY <1>0, <1>1
  <1>3. tries' = [tries EXCEPT ![n] = tries[n] + 1]
    BY DEF Compared
  <1>. QED
    BY <1>1, <1>2, <1>3, Zenon

LEMMA VerifyEmailSendCodeProven ==
    ASSUME ProvenInv, NEW r \in Requests, NEW u \in Users, VerifyEmailSendCode(r, u)
    PROVE  ProvenInv' /\ Steady
  <1>1. /\ Hit(u, "verify_email_send") /\ "verify_email_send" \in Keys
        /\ UNCHANGED <<user, session, cache, sent, proven, mixed, since>> /\ tries' = tries
        /\ CurrentUser(r, "verify", u)
    BY DEF VerifyEmailSendCode, Keys
  <1>2. Exists(u) /\ user[u] \in Row /\ tries' \in [1..MaxCodes -> Nat]
    BY <1>1, CurrentUserExists DEF ProvenInv, Typed
  <1>3. CASE user[u].email = None \/ user[u].email_verified
    BY <1>1, <1>2, <1>3, StartProven DEF VerifyEmailSendCode, Ends
  <1>4. CASE ~(user[u].email = None \/ user[u].email_verified)
    <2>. DEFINE next == [op |-> "verify_send", u |-> u, email |-> user[u].email]
    <2>1. user[u].email \in Emails
      BY <1>2, <1>4 DEF Row
    <2>2. next \in Request
      BY <2>1, RequestsMade
    <2>3. next.u = u /\ RequestFits(next)
      BY <1>2 DEF RequestFits
    <2>4. GoesOn(r, next)
      BY <1>4 DEF VerifyEmailSendCode
    <2>. HIDE DEF next
    <2>. QED
      BY <1>1, <1>2, <2>2, <2>3, <2>4, StartProven
  <1>. QED
    BY <1>3, <1>4

LEMMA VerifyEmailCompleteProven ==
    ASSUME ProvenInv, NEW r \in Requests, NEW u \in Users, NEW right \in BOOLEAN,
           VerifyEmailComplete(r, u, right)
    PROVE  ProvenInv' /\ Steady
  <1>1. /\ Hit(u, "verify_email") /\ "verify_email" \in Keys
        /\ UNCHANGED <<user, session, cache, sent, proven, mixed, since>>
        /\ CurrentUser(r, "verify", u)
    BY DEF VerifyEmailComplete, Keys
  <1>2. Exists(u) /\ UserFits(u) /\ Typed
    BY <1>1, CurrentUserExists DEF ProvenInv
  <1>3. tries' \in [1..MaxCodes -> Nat]
    BY <1>2, TriesTyped DEF VerifyEmailComplete, Typed, UserFits
  <1>4. CASE Ends
    BY <1>1, <1>3, <1>4, StartProven DEF Ends
  <1>5. CASE ~Ends
    <2>. DEFINE next == [op |-> "verify_save", u |-> u, n |-> otp[u].val]
    <2>1. Alive(otp[u]) /\ GoesOn(r, next)
      BY <1>5 DEF VerifyEmailComplete
    <2>2. otp[u].val \in 1..Len(sent) /\ otp[u].val \in Nat
      BY <1>2, <2>1 DEF UserFits, Typed
    <2>3. next \in Request
      BY <2>2, RequestsMade
    <2>4. next.u = u /\ RequestFits(next)
      BY <1>2, <2>1, <2>2 DEF RequestFits, UserFits
    <2>. HIDE DEF next
    <2>. QED
      BY <1>1, <1>3, <2>1, <2>3, <2>4, StartProven
  <1>. QED
    BY <1>4, <1>5

LEMMA ChangeEmailStartProven ==
    ASSUME ProvenInv, NEW r \in Requests, NEW u \in Users, NEW e \in Emails,
           ChangeEmailStart(r, u, e)
    PROVE  ProvenInv' /\ Steady
  <1>1. /\ Hit(u, "change_email") /\ "change_email" \in Keys
        /\ UNCHANGED <<user, session, cache, sent, proven, mixed, since>> /\ tries' = tries
        /\ CurrentUser(r, "change", u)
    BY DEF ChangeEmailStart, Keys
  <1>2. Exists(u) /\ tries' \in [1..MaxCodes -> Nat]
    BY <1>1, CurrentUserExists DEF ProvenInv, Typed
  <1>. DEFINE next == [op |-> "pend", u |-> u, email |-> e]
  <1>3. next \in Request /\ next.u = u /\ RequestFits(next)
    BY <1>2, RequestsMade DEF RequestFits
  <1>4. Ends \/ GoesOn(r, next)
    BY DEF ChangeEmailStart
  <1>. HIDE DEF next
  <1>. QED
    BY <1>1, <1>2, <1>3, <1>4, StartProven DEF Ends

LEMMA ChangeEmailResendCodeProven ==
    ASSUME ProvenInv, NEW r \in Requests, NEW u \in Users, ChangeEmailResendCode(r, u)
    PROVE  ProvenInv' /\ Steady
  <1>1. /\ Hit(u, "change_email_send") /\ "change_email_send" \in Keys
        /\ UNCHANGED <<user, session, cache, sent, proven, mixed, since>> /\ tries' = tries
        /\ CurrentUser(r, "resend", u)
    BY DEF ChangeEmailResendCode, Keys
  <1>2. Exists(u) /\ tries' \in [1..MaxCodes -> Nat]
    BY <1>1, CurrentUserExists DEF ProvenInv, Typed
  <1>. DEFINE next == [op |-> "resend", u |-> u]
  <1>3. next \in Request /\ next.u = u /\ RequestFits(next)
    BY <1>2, RequestsMade DEF RequestFits
  <1>4. GoesOn(r, next)
    BY DEF ChangeEmailResendCode
  <1>. HIDE DEF next
  <1>. QED
    BY <1>1, <1>2, <1>3, <1>4, StartProven

LEMMA ChangeEmailCompleteProven ==
    ASSUME ProvenInv, NEW r \in Requests, NEW u \in Users, NEW right \in BOOLEAN,
           ChangeEmailComplete(r, u, right)
    PROVE  ProvenInv' /\ Steady
  <1>1. /\ Hit(u, "change_email") /\ "change_email" \in Keys
        /\ UNCHANGED <<user, session, cache, sent, proven, mixed, since>>
        /\ CurrentUser(r, "change", u)
    BY DEF ChangeEmailComplete, Keys
  <1>2. Exists(u) /\ UserFits(u) /\ Typed
    BY <1>1, CurrentUserExists DEF ProvenInv
  <1>3. tries' \in [1..MaxCodes -> Nat]
    BY <1>2, TriesTyped DEF ChangeEmailComplete, Typed, UserFits
  <1>. DEFINE save == [op |-> "save", u |-> u, email |-> pending[u].val, n |-> code[u].val]
              mark == [op |-> "mark", u |-> u]
  <1>4. \/ Ends
        \/ Alive(pending[u]) /\ Alive(code[u]) /\ GoesOn(r, save)
        \/ Alive(pending[u]) /\ GoesOn(r, mark)
    BY DEF ChangeEmailComplete
  <1>5. mark \in Request /\ mark.u = u /\ RequestFits(mark)
    BY <1>2, RequestsMade DEF RequestFits
  <1>6. ASSUME Alive(pending[u]), Alive(code[u]), pending[u].val \in Emails
        PROVE  save \in Request /\ save.u = u /\ RequestFits(save)
    <2>1. code[u].val \in 1..Len(sent) /\ code[u].val \in Nat
      BY <1>2, <1>6 DEF UserFits, Typed
    <2>2. save \in Request
      BY <1>6, <2>1, RequestsMade
    <2>. QED
      BY <1>2, <1>6, <2>1, <2>2 DEF RequestFits, UserFits
  <1>7. Alive(pending[u]) => pending[u].val \in Emails
    BY <1>2 DEF UserFits
  <1>. HIDE DEF save, mark
  <1>8. CASE Ends
    BY <1>1, <1>3, <1>8, StartProven DEF Ends
  <1>9. CASE Alive(pending[u]) /\ Alive(code[u]) /\ GoesOn(r, save)
    BY <1>1, <1>3, <1>6, <1>7, <1>9, StartProven
  <1>10. CASE GoesOn(r, mark)
    BY <1>1, <1>3, <1>5, <1>10, StartProven
  <1>. QED
    BY <1>4, <1>8, <1>9, <1>10

-----------------------------------------------------------------------------
(* Requests that go on                                                     *)

LEMMA RequestUser ==
    ASSUME ProvenInv, NEW r \in Requests, req[r].op # "idle"
    PROVE  /\ req[r] \in Request /\ req[r] # Idle /\ req[r].u \in Users
           /\ Exists(req[r].u) /\ user[req[r].u] \in Row
           /\ UserFits(req[r].u) /\ RequestFits(req[r])
  <1>1. req[r] \in Request /\ RequestFits(req[r]) /\ user \in [Users -> Row \cup {None}]
    BY DEF ProvenInv, Typed
  <1>2. req[r] # Idle /\ req[r].u \in Users
    BY <1>1, RequestFields
  <1>. QED
    BY <1>1, <1>2 DEF RequestFits, Exists, ProvenInv

LEMMA RequestsProven ==
    ASSUME ProvenInv, Steady, NEW r \in Requests, NEW next \in Request,
           req' = [req EXCEPT ![r] = next], next # Idle => next.u \in Users /\ Exists(next.u)',
           next.op \notin {"verify_send", "verify_save", "save"}
    PROVE  /\ req' \in [Requests -> Request]
           /\ \A s \in Requests : RequestFits(req[s])'
  <1>1. req \in [Requests -> Request]
    BY DEF ProvenInv, Typed
  <1>2. req' \in [Requests -> Request] /\ req'[r] = next
        /\ \A s \in Requests \ {r} : req'[s] = req[s]
    BY <1>1
  <1>3. RequestFits(req[r])'
    BY <1>2 DEF RequestFits
  <1>. QED
    BY <1>2, <1>3, RequestKept

LEMMA OtpMade ==
    ASSUME Typed, NEW e \in Emails, MakeOtpCode(e), UNCHANGED user, mixed \subseteq mixed'
    PROVE  /\ Steady /\ sent' \in Seq(Emails) /\ Len(sent') <= MaxCodes
           /\ OtpEntry(Len(sent')) \in Code
           /\ OtpEntry(Len(sent')).val \in 1..Len(sent')
           /\ sent'[OtpEntry(Len(sent')).val] = e
           /\ Len(sent') = Len(sent) + 1
  <1>1. sent' = Append(sent, e) /\ Len(sent) < MaxCodes /\ MaxCodes \in Nat /\ Len(sent) \in Nat
    BY AccountsAssumption DEF Typed, MakeOtpCode, EmailVerificationMessage
  <1>2. /\ Steady /\ sent' \in Seq(Emails) /\ Len(sent') = Len(sent) + 1
        /\ sent'[Len(sent')] = e
    BY <1>1, SteadyBySending
  <1>3. Len(sent') \in Nat \ {0} /\ Len(sent') <= MaxCodes
    BY <1>1, <1>2
  <1>4. OtpTtl \in Nat /\ OtpTtl \in 0..OtpTtl
    BY AccountsAssumption
  <1>. QED
    BY <1>2, <1>3, <1>4 DEF OtpEntry, Code

LEMMA VerifyEmailSetCodeProven ==
    ASSUME ProvenInv, NEW r \in Requests, VerifyEmailSetCode(r)
    PROVE  ProvenInv' /\ Steady
  <1>0. req[r].op = "verify_send"
    BY DEF VerifyEmailSetCode
  <1>u. PICK u \in Users : u = req[r].u
    BY <1>0, RequestUser
  <1>e. PICK e \in Emails : e = req[r].email
    BY <1>0, RequestUser, RequestFields
  <1>1. /\ req[r].op = "verify_send" /\ req' = [req EXCEPT ![r] = Idle]
        /\ UNCHANGED <<user, session, pending, code, completed, rate, proven, mixed,
                       disturbed, since, tries>>
    BY DEF VerifyEmailSetCode, ghosts
  <1>2. /\ Typed /\ u \in Users /\ e \in Emails /\ Exists(u) /\ UserFits(u)
        /\ RequestFits(req[r])
    BY <1>1, <1>u, RequestUser DEF ProvenInv
  <1>3. Idle \in Request /\ Idle.op = "idle"
    BY DEF Request, Idle
  <1>4. \/ UNCHANGED <<sent, otp>>
        \/ MakeOtpCode(e) /\ otp' = [otp EXCEPT ![u] = OtpEntry(Len(sent'))]
    BY <1>u, <1>e DEF VerifyEmailSetCode
  <1>5. CASE UNCHANGED <<sent, otp>>
    <2>1. Steady
      BY <1>1, <1>2, <1>5, SteadyByUnchanged
    <2>2. req' \in [Requests -> Request] /\ \A s \in Requests : RequestFits(req[s])'
      BY <1>1, <1>3, <2>1, RequestsProven
    <2>3. \A v \in Users : UserFits(v)'
      BY <1>1, <1>5, <2>1, UserKept
    <2>4. Typed'
      BY <1>1, <1>2, <1>5, <2>2 DEF Typed, Exists
    <2>. QED
      BY <2>1, <2>2, <2>3, <2>4 DEF ProvenInv
  <1>6. CASE MakeOtpCode(e) /\ otp' = [otp EXCEPT ![u] = OtpEntry(Len(sent'))]
    <2>. DEFINE entry == OtpEntry(Len(sent'))
    <2>1. /\ Steady /\ sent' \in Seq(Emails) /\ Len(sent') <= MaxCodes
          /\ entry \in Code /\ entry.val \in 1..Len(sent') /\ sent'[entry.val] = e
          /\ Len(sent') = Len(sent) + 1
      BY <1>1, <1>2, <1>6, OtpMade
    <2>2. otp' = [otp EXCEPT ![u] = entry]
      BY <1>6
    <2>. HIDE DEF entry
    <2>3. otp' \in [Users -> Code] /\ otp'[u] = entry
          /\ \A v \in Users \ {u} : otp'[v] = otp[v]
      BY <1>2, <2>1, <2>2 DEF Typed
    <2>4. req' \in [Requests -> Request] /\ \A s \in Requests : RequestFits(req[s])'
      BY <1>1, <1>3, <2>1, RequestsProven
    <2>5. \A v \in Users \ {u} : UserFits(v)'
      BY <1>1, <2>1, <2>3, UserKept
    <2>6. ~user[u].email_verified => e = user[u].email
      BY <1>1, <1>2, <1>u, <1>e DEF RequestFits
    <2>7. UserFits(u)'
      <3>1. Len(sent) \in Nat /\ \A i \in 1..Len(sent) : i \in 1..Len(sent') /\ sent'[i] = sent[i]
        BY <1>2, <2>1 DEF Typed, Steady
      <3>. QED
        BY <1>1, <1>2, <2>1, <2>3, <2>6, <3>1 DEF UserFits, Alive, Exists
    <2>8. Typed'
      BY <1>1, <1>2, <2>1, <2>3, <2>4 DEF Typed, Exists
    <2>. QED
      BY <2>1, <2>4, <2>5, <2>7, <2>8 DEF ProvenInv
  <1>. QED
    BY <1>4, <1>5, <1>6

LEMMA VerifyEmailSaveProven ==
    ASSUME ProvenInv, NEW r \in Requests, VerifyEmailSave(r)
    PROVE  ProvenInv' /\ Steady
  <1>0. req[r].op = "verify_save"
    BY DEF VerifyEmailSave
  <1>u. PICK u \in Users : u = req[r].u
    BY <1>0, RequestUser
  <1>. DEFINE row == [user[u] EXCEPT !.email_verified = TRUE]
              a == sent[req[r].n]
  <1>1. /\ req[r].op = "verify_save" /\ req' = [req EXCEPT ![r] = Idle]
        /\ user' = [user EXCEPT ![u] = row]
        /\ proven' = [proven EXCEPT ![u] = proven[u] \cup {a}]
        /\ UNCHANGED <<session, pending, code, completed, otp, rate, sent, mixed, disturbed,
                       since, tries>>
    BY <1>u DEF VerifyEmailSave, cache
  <1>2. /\ Typed /\ u \in Users /\ Exists(u) /\ UserFits(u) /\ RequestFits(req[r])
        /\ user[u] \in Row
    BY <1>0, <1>u, RequestUser DEF ProvenInv
  <1>3. row \in Row /\ row.email_verified /\ row.email = user[u].email
    BY <1>2 DEF Row
  <1>4. Idle \in Request /\ Idle.op = "idle"
    BY DEF Request, Idle
  <1>5. a \in Emails /\ (~user[u].email_verified => a = user[u].email)
    BY <1>1, <1>2, <1>u DEF RequestFits, Typed
  <1>. HIDE DEF row, a
  <1>6. row # None
    BY <1>3, RowAssumption
  <1>7. /\ user' \in [Users -> Row \cup {None}] /\ user'[u] = row
        /\ \A v \in Users \ {u} : user'[v] = user[v]
    BY <1>1, <1>2, <1>3 DEF Typed
  <1>8. /\ proven' \in [Users -> SUBSET Emails] /\ proven'[u] = proven[u] \cup {a}
        /\ \A v \in Users \ {u} : proven'[v] = proven[v]
    BY <1>1, <1>2, <1>5 DEF Typed
  <1>9. Steady
    BY <1>1, <1>2, <1>3, <1>6, <1>7 DEF Steady, Exists, Typed
  <1>10. req' \in [Requests -> Request] /\ \A s \in Requests : RequestFits(req[s])'
    BY <1>1, <1>4, <1>9, RequestsProven
  <1>11. \A v \in Users \ {u} : UserFits(v)'
    BY <1>1, <1>7, <1>8, <1>9, UserKept
  <1>12. UserFits(u)'
    <2>1. row.email \in proven'[u] \/ u \in mixed
      BY <1>2, <1>3, <1>5, <1>8 DEF UserFits
    <2>. QED
      BY <1>1, <1>2, <1>3, <1>6, <1>7, <2>1 DEF UserFits, Exists
  <1>13. Typed'
    <2>1. session' \subseteq {v \in Users : Exists(v)'}
      BY <1>1, <1>2, <1>6, <1>7 DEF Typed, Exists
    <2>. QED
      BY <1>1, <1>2, <1>7, <1>8, <1>10, <2>1 DEF Typed
  <1>. QED
    BY <1>9, <1>10, <1>11, <1>12, <1>13 DEF ProvenInv

LEMMA ChangeEmailSetPendingProven ==
    ASSUME ProvenInv, NEW r \in Requests, ChangeEmailSetPending(r)
    PROVE  ProvenInv' /\ Steady
  <1>0. req[r].op = "pend"
    BY DEF ChangeEmailSetPending
  <1>u. PICK u \in Users : u = req[r].u
    BY <1>0, RequestUser
  <1>e. PICK e \in Emails : e = req[r].email
    BY <1>0, RequestUser, RequestFields
  <1>. DEFINE entry == [val |-> e, ttl |-> PendingTtl]
              next == [op |-> "resend", u |-> u]
  <1>1. /\ UNCHANGED <<user, session, code, completed, otp, rate, sent, proven, disturbed,
                       since, tries>>
        /\ \/ req' = [req EXCEPT ![r] = Idle] /\ UNCHANGED <<pending, mixed>>
           \/ /\ pending' = [pending EXCEPT ![u] = entry]
              /\ mixed' = IF Alive(code[u]) /\ sent[code[u].val] # e
                          THEN mixed \cup {u} ELSE mixed
              /\ req' = [req EXCEPT ![r] = next]
    BY <1>u, <1>e DEF ChangeEmailSetPending
  <1>2. Typed /\ Exists(u) /\ UserFits(u)
    BY <1>0, <1>u, RequestUser DEF ProvenInv
  <1>3. /\ Idle \in Request /\ Idle.op = "idle" /\ next \in Request /\ next.op = "resend"
        /\ next.u = u
    BY RequestsMade DEF Idle
  <1>4. entry \in Address /\ entry.val = e
    BY AccountsAssumption DEF Address
  <1>. HIDE DEF entry, next
  <1>5. mixed \subseteq mixed' /\ mixed' \subseteq Users
    BY <1>1, <1>2 DEF Typed
  <1>6. Steady
    BY <1>1, <1>2, <1>5, SteadyByUnchanged
  <1>7. Exists(u)'
    BY <1>1, <1>2 DEF Exists
  <1>8. req' \in [Requests -> Request] /\ \A s \in Requests : RequestFits(req[s])'
    <2>1. CASE req' = [req EXCEPT ![r] = Idle]
      BY <1>3, <1>6, <2>1, RequestsProven
    <2>2. CASE req' = [req EXCEPT ![r] = next]
      BY <1>3, <1>6, <1>7, <2>2, RequestsProven
    <2>. QED
      BY <1>1, <2>1, <2>2
  <1>9. /\ pending' \in [Users -> Address]
        /\ \A v \in Users \ {u} : pending'[v] = pending[v]
        /\ pending'[u] = pending[u] \/ pending'[u] = entry
    BY <1>1, <1>2, <1>4 DEF Typed
  <1>10. Typed'
    BY <1>1, <1>2, <1>5, <1>8, <1>9 DEF Typed, Exists
  <1>11. \A v \in Users \ {u} : UserFits(v)'
    BY <1>1, <1>6, <1>9, UserKept
  <1>12. UserFits(u)'
    <2>1. CASE UNCHANGED <<pending, mixed>>
      BY <1>1, <1>6, <2>1, UserKept
    <2>2. CASE /\ pending' = [pending EXCEPT ![u] = entry]
               /\ mixed' = IF Alive(code[u]) /\ sent[code[u].val] # e
                           THEN mixed \cup {u} ELSE mixed
      <3>1. pending'[u].val = e
        BY <1>2, <1>4, <2>2 DEF Typed
      <3>2. Alive(code[u]) /\ sent[code[u].val] # e => u \in mixed'
        BY <2>2
      <3>. QED
        BY <1>1, <1>2, <1>5, <3>1, <3>2 DEF UserFits, Exists, Alive
    <2>. QED
      BY <1>1, <2>1, <2>2
  <1>. QED
    BY <1>6, <1>8, <1>10, <1>11, <1>12 DEF ProvenInv

LEMMA ResendReadProven ==
    ASSUME ProvenInv, NEW r \in Requests, ResendRead(r)
    PROVE  ProvenInv' /\ Steady
  <1>0. req[r].op = "resend"
    BY DEF ResendRead
  <1>u. PICK u \in Users : u = req[r].u
    BY <1>0, RequestUser
  <1>. DEFINE next == [op |-> "code", u |-> u, email |-> pending[u].val]
  <1>1. /\ UNCHANGED <<user, session, pending, code, completed, otp, rate, sent, proven,
                       mixed, disturbed, since, tries>>
        /\ \/ req' = [req EXCEPT ![r] = Idle]
           \/ Alive(pending[u]) /\ req' = [req EXCEPT ![r] = next]
    BY <1>u DEF ResendRead, cache, ghosts
  <1>2. Typed /\ Exists(u) /\ UserFits(u) /\ Exists(u)'
    BY <1>0, <1>1, <1>u, RequestUser DEF ProvenInv, Exists
  <1>3. Steady
    BY <1>1, <1>2, SteadyByUnchanged
  <1>4. req' \in [Requests -> Request] /\ \A s \in Requests : RequestFits(req[s])'
    <2>1. CASE req' = [req EXCEPT ![r] = Idle]
      <3>1. Idle \in Request /\ Idle.op = "idle"
        BY DEF Request, Idle
      <3>. QED
        BY <1>3, <2>1, <3>1, RequestsProven
    <2>2. CASE Alive(pending[u]) /\ req' = [req EXCEPT ![r] = next]
      <3>0. PICK e \in Emails : e = pending[u].val
        BY <1>2, <2>2 DEF UserFits
      <3>. DEFINE coded == [op |-> "code", u |-> u, email |-> e]
      <3>1. coded \in Request /\ coded.op = "code" /\ coded.u = u
        BY RequestsMade
      <3>2. req' = [req EXCEPT ![r] = coded]
        BY <2>2, <3>0
      <3>. HIDE DEF coded
      <3>. QED
        BY <1>2, <1>3, <3>1, <3>2, RequestsProven
    <2>. QED
      BY <1>1, <2>1, <2>2
  <1>5. \A v \in Users : UserFits(v)'
    BY <1>1, <1>3, UserKept
  <1>6. Typed'
    BY <1>1, <1>2, <1>4 DEF Typed, Exists
  <1>. QED
    BY <1>3, <1>4, <1>5, <1>6 DEF ProvenInv

LEMMA ResendSetCodeProven ==
    ASSUME ProvenInv, NEW r \in Requests, ResendSetCode(r)
    PROVE  ProvenInv' /\ Steady
  <1>0. req[r].op = "code"
    BY DEF ResendSetCode
  <1>u. PICK u \in Users : u = req[r].u
    BY <1>0, RequestUser
  <1>e. PICK e \in Emails : e = req[r].email
    BY <1>0, RequestUser, RequestFields
  <1>1. /\ req' = [req EXCEPT ![r] = Idle]
        /\ UNCHANGED <<user, session, pending, completed, otp, rate, proven, disturbed, since,
                       tries>>
        /\ \/ UNCHANGED <<sent, code, mixed>>
           \/ /\ MakeOtpCode(e) /\ code' = [code EXCEPT ![u] = OtpEntry(Len(sent'))]
              /\ mixed' = IF Alive(pending[u]) /\ pending[u].val # e
                          THEN mixed \cup {u} ELSE mixed
    BY <1>u, <1>e DEF ResendSetCode
  <1>2. Typed /\ Exists(u) /\ UserFits(u)
    BY <1>0, <1>u, RequestUser DEF ProvenInv
  <1>3. Idle \in Request /\ Idle.op = "idle"
    BY DEF Request, Idle
  <1>4. CASE UNCHANGED <<sent, code, mixed>>
    <2>1. Steady
      BY <1>1, <1>2, <1>4, SteadyByUnchanged
    <2>2. req' \in [Requests -> Request] /\ \A s \in Requests : RequestFits(req[s])'
      BY <1>1, <1>3, <2>1, RequestsProven
    <2>3. \A v \in Users : UserFits(v)'
      BY <1>1, <1>4, <2>1, UserKept
    <2>4. Typed'
      BY <1>1, <1>2, <1>4, <2>2 DEF Typed, Exists
    <2>. QED
      BY <2>1, <2>2, <2>3, <2>4 DEF ProvenInv
  <1>5. CASE /\ MakeOtpCode(e) /\ code' = [code EXCEPT ![u] = OtpEntry(Len(sent'))]
             /\ mixed' = IF Alive(pending[u]) /\ pending[u].val # e
                         THEN mixed \cup {u} ELSE mixed
    <2>. DEFINE entry == OtpEntry(Len(sent'))
    <2>1. /\ mixed \subseteq mixed' /\ mixed' \subseteq Users
          /\ Alive(pending[u]) /\ pending[u].val # e => u \in mixed'
      BY <1>2, <1>5 DEF Typed
    <2>2. /\ Steady /\ sent' \in Seq(Emails) /\ Len(sent') <= MaxCodes
          /\ entry \in Code /\ entry.val \in 1..Len(sent') /\ sent'[entry.val] = e
          /\ Len(sent') = Len(sent) + 1
      BY <1>1, <1>2, <1>5, <2>1, OtpMade
    <2>3. code' = [code EXCEPT ![u] = entry]
      BY <1>5
    <2>. HIDE DEF entry
    <2>4. code' \in [Users -> Code] /\ code'[u] = entry
          /\ \A v \in Users \ {u} : code'[v] = code[v]
      BY <1>2, <2>2, <2>3 DEF Typed
    <2>5. req' \in [Requests -> Request] /\ \A s \in Requests : RequestFits(req[s])'
      BY <1>1, <1>3, <2>2, RequestsProven
    <2>6. \A v \in Users \ {u} : UserFits(v)'
      BY <1>1, <2>2, <2>4, UserKept
    <2>7. UserFits(u)'
      <3>1. Len(sent) \in Nat /\ \A i \in 1..Len(sent) : i \in 1..Len(sent') /\ sent'[i] = sent[i]
        BY <1>2, <2>2 DEF Typed, Steady
      <3>. QED
        BY <1>1, <1>2, <2>1, <2>2, <2>4, <3>1 DEF UserFits, Alive, Exists
    <2>8. Typed'
      BY <1>1, <1>2, <2>1, <2>2, <2>4, <2>5 DEF Typed, Exists
    <2>. QED
      BY <2>2, <2>5, <2>6, <2>7, <2>8 DEF ProvenInv
  <1>. QED
    BY <1>1, <1>4, <1>5

LEMMA ChangeEmailSaveProven ==
    ASSUME ProvenInv, NEW r \in Requests, ChangeEmailSave(r)
    PROVE  ProvenInv' /\ Steady
  <1>0. req[r].op = "save"
    BY DEF ChangeEmailSave
  <1>u. PICK u \in Users : u = req[r].u
    BY <1>0, RequestUser
  <1>e. PICK e \in Emails : e = req[r].email
    BY <1>0, RequestUser, RequestFields
  <1>. DEFINE row == [user[u] EXCEPT !.email = e, !.email_verified = TRUE]
              a == sent[req[r].n]
              next == [op |-> "mark", u |-> u]
  <1>1. /\ UNCHANGED <<session, pending, code, completed, otp, rate, sent, mixed, disturbed,
                       tries>>
        /\ \/ req' = [req EXCEPT ![r] = Idle] /\ UNCHANGED <<user, proven, since>>
           \/ /\ user' = [user EXCEPT ![u] = row]
              /\ proven' = [proven EXCEPT ![u] = proven[u] \cup {a}]
              /\ since' = since \/ since' = [since EXCEPT ![u] = CompletedTtl]
              /\ req' = [req EXCEPT ![r] = next]
    BY <1>u, <1>e DEF ChangeEmailSave, cache
  <1>2. /\ Typed /\ Exists(u) /\ UserFits(u) /\ RequestFits(req[r])
        /\ user[u] \in Row
    BY <1>0, <1>u, RequestUser DEF ProvenInv
  <1>3. row \in Row /\ row.email_verified /\ row.email = e
    BY <1>2 DEF Row
  <1>4. /\ Idle \in Request /\ Idle.op = "idle" /\ next \in Request /\ next.op = "mark"
        /\ next.u = u
    BY RequestsMade DEF Idle
  <1>5. a \in Emails /\ (a = e \/ u \in mixed)
    BY <1>0, <1>2, <1>u, <1>e DEF RequestFits, Typed
  <1>. HIDE DEF row, a, next
  <1>6. row # None
    BY <1>3, RowAssumption
  <1>7. CASE req' = [req EXCEPT ![r] = Idle] /\ UNCHANGED <<user, proven, since>>
    <2>1. Steady
      BY <1>1, <1>2, <1>7, SteadyByUnchanged
    <2>2. req' \in [Requests -> Request] /\ \A s \in Requests : RequestFits(req[s])'
      BY <1>4, <1>7, <2>1, RequestsProven
    <2>3. \A v \in Users : UserFits(v)'
      BY <1>1, <1>7, <2>1, UserKept
    <2>4. Typed'
      BY <1>1, <1>2, <1>7, <2>2 DEF Typed, Exists
    <2>. QED
      BY <2>1, <2>2, <2>3, <2>4 DEF ProvenInv
  <1>8. CASE /\ user' = [user EXCEPT ![u] = row]
             /\ proven' = [proven EXCEPT ![u] = proven[u] \cup {a}]
             /\ since' = since \/ since' = [since EXCEPT ![u] = CompletedTtl]
             /\ req' = [req EXCEPT ![r] = next]
    <2>1. /\ user' \in [Users -> Row \cup {None}] /\ user'[u] = row
          /\ \A v \in Users \ {u} : user'[v] = user[v]
      BY <1>2, <1>3, <1>8 DEF Typed
    <2>2. /\ proven' \in [Users -> SUBSET Emails] /\ proven'[u] = proven[u] \cup {a}
          /\ \A v \in Users \ {u} : proven'[v] = proven[v]
      BY <1>2, <1>5, <1>8 DEF Typed
    <2>3. since' \in [Users -> 0..CompletedTtl] /\ \A v \in Users \ {u} : since'[v] = since[v]
      <3>1. CompletedTtl \in 0..CompletedTtl
        BY AccountsAssumption
      <3>. QED
        BY <1>2, <1>8, <3>1 DEF Typed
    <2>4. Steady
      BY <1>1, <1>2, <1>3, <1>6, <2>1 DEF Steady, Exists, Typed
    <2>5. Exists(u)'
      BY <1>6, <2>1 DEF Exists
    <2>6. req' \in [Requests -> Request] /\ \A s \in Requests : RequestFits(req[s])'
      BY <1>4, <1>8, <2>4, <2>5, RequestsProven
    <2>7. \A v \in Users \ {u} : UserFits(v)'
      BY <1>1, <2>1, <2>2, <2>3, <2>4, UserKept
    <2>8. UserFits(u)'
      <3>1. user'[u].email \in proven'[u] \/ u \in mixed
        BY <1>3, <1>5, <2>1, <2>2
      <3>. QED
        BY <1>1, <1>2, <1>3, <2>1, <2>5, <3>1 DEF UserFits
    <2>9. Typed'
      <3>1. session' \subseteq {v \in Users : Exists(v)'}
        BY <1>1, <1>2, <2>1, <2>5 DEF Typed, Exists
      <3>. QED
        BY <1>1, <1>2, <2>1, <2>2, <2>3, <2>6, <3>1 DEF Typed
    <2>. QED
      BY <2>4, <2>6, <2>7, <2>8, <2>9 DEF ProvenInv
  <1>. QED
    BY <1>1, <1>7, <1>8

LEMMA ChangeEmailMarkProven ==
    ASSUME ProvenInv, NEW r \in Requests, ChangeEmailMark(r)
    PROVE  ProvenInv' /\ Steady
  <1>1. /\ req' = [req EXCEPT ![r] = Idle]
        /\ completed' = [completed EXCEPT ![req[r].u] = CompletedTtl]
        /\ UNCHANGED <<user, session, pending, code, otp, rate, sent, proven, mixed,
                       disturbed, since, tries>>
    BY DEF ChangeEmailMark, ghosts
  <1>2. Typed /\ Idle \in Request /\ Idle.op = "idle" /\ CompletedTtl \in 0..CompletedTtl
    BY AccountsAssumption DEF ProvenInv, Request, Idle
  <1>3. Steady
    BY <1>1, <1>2, SteadyByUnchanged
  <1>4. req' \in [Requests -> Request] /\ \A s \in Requests : RequestFits(req[s])'
    BY <1>1, <1>2, <1>3, RequestsProven
  <1>5. \A v \in Users : UserFits(v)'
    BY <1>1, <1>3, UserKept
  <1>6. completed' \in [Users -> 0..CompletedTtl]
    BY <1>1, <1>2 DEF Typed
  <1>7. Typed'
    BY <1>1, <1>2, <1>4, <1>6 DEF Typed, Exists
  <1>. QED
    BY <1>3, <1>4, <1>5, <1>7 DEF ProvenInv

-----------------------------------------------------------------------------
(* Time, restarts and tokens                                               *)

LEMMA OlderTyped ==
    /\ \A e \in Address : /\ Older(e) \in Address
                          /\ Alive(Older(e)) => Alive(e) /\ Older(e).val = e.val /\ Older(e).ttl = e.ttl - 1
                          /\ ~Alive(Older(e)) => e.ttl <= 1
    /\ \A e \in Code : /\ Older(e) \in Code
                       /\ Alive(Older(e)) => Alive(e) /\ Older(e).val = e.val /\ Older(e).ttl = e.ttl - 1
                       /\ ~Alive(Older(e)) => e.ttl <= 1
  <1>1. PendingTtl \in Nat /\ OtpTtl \in Nat
    BY AccountsAssumption
  <1>2. ASSUME NEW e \in Address
        PROVE  /\ Older(e) \in Address
               /\ Alive(Older(e)) => Alive(e) /\ Older(e).val = e.val /\ Older(e).ttl = e.ttl - 1
               /\ ~Alive(Older(e)) => e.ttl <= 1
    BY <1>1 DEF Older, Alive, Address, Gone
  <1>3. ASSUME NEW e \in Code
        PROVE  /\ Older(e) \in Code
               /\ Alive(Older(e)) => Alive(e) /\ Older(e).val = e.val /\ Older(e).ttl = e.ttl - 1
               /\ ~Alive(Older(e)) => e.ttl <= 1
    BY <1>1 DEF Older, Alive, Code, Gone
  <1>. QED
    BY <1>2, <1>3

LEMMA TickProven ==
    ASSUME ProvenInv, Tick
    PROVE  ProvenInv' /\ Steady
  <1>1. UNCHANGED <<user, session, sent, req, proven, mixed, disturbed, tries>>
    BY DEF Tick
  <1>2. Typed /\ Period \in Nat \ {0} /\ CompletedTtl \in Nat \ {0}
    BY AccountsAssumption DEF ProvenInv
  <1>3. Steady
    BY <1>1, <1>2, SteadyByUnchanged
  <1>4. \A s \in Requests : RequestFits(req[s])'
    BY <1>1, <1>3, RequestKept
  <1>5. /\ pending' \in [Users -> Address] /\ code' \in [Users -> Code] /\ otp' \in [Users -> Code]
        /\ \A v \in Users : /\ Alive(pending'[v]) => Alive(pending[v]) /\ pending'[v].val = pending[v].val
                            /\ Alive(code'[v]) => Alive(code[v]) /\ code'[v].val = code[v].val
                            /\ Alive(otp'[v]) => Alive(otp[v]) /\ otp'[v].val = otp[v].val
    BY <1>2, OlderTyped DEF Tick, Typed
  <1>6. /\ completed' \in [Users -> 0..CompletedTtl] /\ since' \in [Users -> 0..CompletedTtl]
        /\ \A v \in Users : since[v] = 0 => since'[v] = 0
    <2>1. \A n \in 0..CompletedTtl : Less(n) \in 0..CompletedTtl /\ Less(0) = 0
      BY <1>2 DEF Less
    <2>. QED
      BY <1>2, <2>1 DEF Tick, Typed
  <1>7. /\ rate' \in [Users -> [Keys -> Window]]
        /\ \A u \in Users, k \in Keys : /\ rate'[u][k].ttl > 0 => rate'[u][k].n > 0
                                        /\ rate'[u][k].n <= LimitOf(k) + 1
    <2>. DEFINE w(u, k) == IF rate[u][k].ttl > 1 THEN [rate[u][k] EXCEPT !.ttl = rate[u][k].ttl - 1]
                           ELSE [n |-> 0, ttl |-> 0]
    <2>1. \A k \in Keys : LimitOf(k) \in Nat
      BY AccountsAssumption DEF LimitOf
    <2>2. ASSUME NEW u \in Users, NEW k \in Keys
          PROVE  /\ w(u, k) \in Window /\ (w(u, k).ttl > 0 => w(u, k).n > 0)
                 /\ w(u, k).n <= LimitOf(k) + 1
      <3>1. /\ rate[u][k] \in Window /\ (rate[u][k].ttl > 0 => rate[u][k].n > 0)
            /\ rate[u][k].n <= LimitOf(k) + 1 /\ LimitOf(k) \in Nat
        BY <1>2, <2>1 DEF Typed
      <3>. QED
        BY <1>2, <3>1 DEF Window
    <2>3. rate' = [u \in Users |-> [k \in Keys |-> w(u, k)]]
      BY DEF Tick
    <2>. HIDE DEF w
    <2>. QED
      BY <2>2, <2>3
  <1>8. Typed'
    BY <1>1, <1>2, <1>5, <1>6, <1>7 DEF Typed, Exists
  <1>9. ASSUME NEW v \in Users PROVE UserFits(v)'
    <2>1. UserFits(v)
      BY DEF ProvenInv
    <2>2. Exists(v)' <=> Exists(v)
      BY <1>1 DEF Exists
    <2>. QED
      BY <1>1, <1>5, <1>6, <2>1, <2>2 DEF UserFits
  <1>. QED
    BY <1>3, <1>4, <1>8, <1>9 DEF ProvenInv

LEMMA RestartProven ==
    ASSUME ProvenInv, Restart
    PROVE  ProvenInv' /\ Steady
  <1>1. /\ UNCHANGED <<user, session, pending, code, completed, otp, rate, sent, proven, mixed,
                       since, tries>>
        /\ req' = [s \in Requests |-> Idle]
        /\ disturbed' = disturbed \cup {u \in Users : Busy(u)}
    BY DEF Restart, cache
  <1>2. Typed /\ Idle \in Request /\ Idle.op = "idle"
    BY DEF ProvenInv, Request, Idle
  <1>3. Steady
    BY <1>1, <1>2, SteadyByUnchanged
  <1>4. \A s \in Requests : RequestFits(req[s])'
    BY <1>1, <1>2 DEF RequestFits
  <1>5. \A v \in Users : UserFits(v)'
    BY <1>1, <1>3, UserKept
  <1>6. req' \in [Requests -> Request] /\ disturbed' \subseteq Users
    BY <1>1, <1>2 DEF Typed
  <1>7. Typed'
    BY <1>1, <1>2, <1>6 DEF Typed, Exists
  <1>. QED
    BY <1>3, <1>4, <1>5, <1>7 DEF ProvenInv

LEMMA TokensProven ==
    ASSUME ProvenInv, session' \subseteq {u \in Users : Exists(u)},
           UNCHANGED <<user, cache, rate, sent, req, made, crashes, ghosts>>
    PROVE  ProvenInv' /\ Steady
  <1>1. /\ UNCHANGED <<user, pending, code, completed, otp, rate, sent, req, proven, mixed,
                       disturbed, since, tries>>
        /\ Typed
    BY DEF cache, ghosts, ProvenInv
  <1>2. Steady
    BY <1>1, SteadyByUnchanged
  <1>3. \A s \in Requests : RequestFits(req[s])'
    BY <1>1, <1>2, RequestKept
  <1>4. \A v \in Users : UserFits(v)'
    BY <1>1, <1>2, UserKept
  <1>5. Typed'
    BY <1>1 DEF Typed, Exists
  <1>. QED
    BY <1>2, <1>3, <1>4, <1>5 DEF ProvenInv

-----------------------------------------------------------------------------
(* What was proven                                                         *)

LEMMA RequestProven ==
    ASSUME ProvenInv, NEW r \in Requests, Verify(r) \/ Change(r)
    PROVE  ProvenInv' /\ Steady
  <1>1. CASE Verify(r)
    <2>1. {"verify_email_send", "verify_email"} \subseteq Keys
      BY DEF Keys
    <2>. QED
      BY <1>1, <2>1, TooManyProven, VerifyEmailSendCodeProven, VerifyEmailCompleteProven,
         VerifyEmailSetCodeProven, VerifyEmailSaveProven DEF Verify
  <1>2. CASE Change(r)
    <2>1. {"change_email", "change_email_send"} \subseteq Keys
      BY DEF Keys
    <2>. QED
      BY <1>2, <2>1, TooManyProven, ChangeEmailResendCodeProven, ChangeEmailStartProven,
         ChangeEmailCompleteProven, ChangeEmailSetPendingProven, ResendReadProven,
         ResendSetCodeProven, ChangeEmailSaveProven, ChangeEmailMarkProven DEF Change
  <1>. QED
    BY <1>1, <1>2

LEMMA NextProven ==
    ASSUME ProvenInv, [Next]_vars
    PROVE  ProvenInv'
  <1>1. ASSUME NEW u \in Users, NEW e \in Emails, SignUp(u, e) PROVE ProvenInv'
    <2>1. Create(u, e, e, FALSE) /\ session' = session \cup {u}
      BY <1>1 DEF SignUp
    <2>. QED
      BY <2>1, CreateProven
  <1>2. ASSUME NEW u \in Users, NEW n \in Names, CreateSuperuser(u, n) PROVE ProvenInv'
    <2>1. Create(u, n, None, TRUE) /\ session' = session
      BY <1>2 DEF CreateSuperuser
    <2>. QED
      BY <2>1, CreateProven
  <1>3. ASSUME NEW u \in Users, TokenExpires(u) PROVE ProvenInv'
    BY <1>3, TokensProven DEF TokenExpires, ProvenInv, Typed
  <1>4. ASSUME NEW login \in Emails \cup Names, SignIn(login) PROVE ProvenInv'
    BY <1>4, TokensProven DEF SignIn, FoundBy, ProvenInv, Typed
  <1>5. CASE UNCHANGED vars
    <2>1. session' \subseteq {u \in Users : Exists(u)}
      BY <1>5 DEF vars, ProvenInv, Typed
    <2>. QED
      BY <1>5, <2>1, TokensProven DEF vars, cache, ghosts
  <1>. QED
    BY <1>1, <1>2, <1>3, <1>4, <1>5, RequestProven, TickProven, RestartProven DEF Next

LEMMA AlwaysProven == Spec => []ProvenInv
  BY InitProven, NextProven, PTL DEF Spec

\* Users, tokens, the entries of the cache, limiters and codes always have the types
\* that TypeOK gives them: no window counts more than one call too many, and only
\* users with a row have a token.
THEOREM TypeCorrect == Spec => []TypeOK
  <1>1. ProvenInv => TypeOK
    BY DEF ProvenInv, Typed, TypeOK, Address, Code, Window
  <1>. QED
    BY <1>1, AlwaysProven, PTL

\* Whoever may upload where that needs a confirmed address (verified_current_user)
\* is a superuser, or has given a code that was sent to the address of the row, or
\* is one of whom the cache held a code for another address when a change began or
\* a resend ended.
THEOREM VerifiedIsAlwaysProven == Spec => []VerifiedIsProven
  <1>1. ProvenInv => VerifiedIsProven
    BY DEF ProvenInv, UserFits, VerifiedIsProven, VerifiedCurrentUser, IsVerified
  <1>. QED
    BY <1>1, AlwaysProven, PTL

-----------------------------------------------------------------------------
(* Changes one at a time                                                   *)

\* A user of whom no request is begun, none is a change to be saved that was not
\* before, and no mark to be set is lost.
LEMMA CalmKept ==
    ASSUME NEW u \in Users, Calm(u), user'[u].email = user[u].email, since'[u] = since[u],
           completed'[u] = completed[u], pending'[u] = pending[u],
           \A s \in Requests : /\ req'[s] # Idle /\ req'[s].u = u =>
                                    /\ req[s] # Idle /\ req[s].u = u
                                    /\ req'[s] = req[s] \/ req'[s].op \notin {"pend", "save"}
                               /\ req[s].op = "mark" /\ req[s].u = u => req'[s] = req[s]
    PROVE  Calm(u)'
  <1>1. Idle.op = "idle"
    BY DEF Idle
  <1>. QED
    BY <1>1 DEF Calm, Alive

LEMMA OthersCalm ==
    ASSUME SpacedInv, NEW r \in Requests, NEW u \in Users, NEW next \in Request,
           req' = [req EXCEPT ![r] = next], next # Idle => next.u = u,
           req[r] # Idle => req[r].u = u, disturbed \subseteq disturbed',
           NEW v \in Users \ disturbed', v # u,
           user'[v] = user[v], since'[v] = since[v],
           completed'[v] = completed[v], pending'[v] = pending[v]
    PROVE  Calm(v)'
  <1>1. Calm(v) /\ req \in [Requests -> Request]
    BY DEF SpacedInv, OneAtATime, ProvenInv, Typed
  <1>2. req'[r] = next /\ \A s \in Requests \ {r} : req'[s] = req[s]
    BY <1>1
  <1>3. Idle.op = "idle"
    BY DEF Idle
  <1>. QED
    BY <1>1, <1>2, <1>3, CalmKept

LEMMA StartSpaced ==
    ASSUME SpacedInv, NEW r \in Requests, NEW u \in Users, NEW op, CurrentUser(r, op, u),
           UNCHANGED <<user, pending, completed, since>>,
           \/ UNCHANGED <<req, disturbed>>
           \/ \E next \in Request :
                /\ next.u = u /\ next # Idle /\ GoesOn(r, next)
                /\ next.op = "pend" => completed[u] = 0
                /\ next.op = "save" => Alive(pending[u]) /\ next.email = pending[u].val
    PROVE  OneAtATime'
  <1>1. CASE UNCHANGED <<req, disturbed>>
    <2>1. ASSUME NEW v \in Users \ disturbed' PROVE Calm(v)'
      BY <1>1, CalmKept DEF SpacedInv, OneAtATime
    <2>. QED
      BY <2>1 DEF OneAtATime
  <1>2. ASSUME NEW next \in Request, next.u = u, next # Idle, GoesOn(r, next),
               next.op = "pend" => completed[u] = 0,
               next.op = "save" => Alive(pending[u]) /\ next.email = pending[u].val
        PROVE  OneAtATime'
    <2>1. /\ req' = [req EXCEPT ![r] = next] /\ req[r] = Idle /\ disturbed \subseteq disturbed'
          /\ Busy(u) => u \in disturbed'
          /\ disturbed' \subseteq disturbed \cup {u}
          /\ req \in [Requests -> Request]
      BY <1>2 DEF GoesOn, CurrentUser, SpacedInv, ProvenInv, Typed
    <2>2. \A v \in Users \ disturbed' : v # u => Calm(v)'
      BY <1>2, <2>1, OthersCalm
    <2>3. ASSUME u \notin disturbed' PROVE Calm(u)'
      <3>1. Calm(u) /\ \A s \in Requests : req[s] # Idle => req[s].u # u
        BY <2>1, <2>3 DEF SpacedInv, OneAtATime, Busy
      <3>2. req'[r] = next /\ \A s \in Requests \ {r} : req'[s] = req[s]
        BY <2>1
      <3>3. Idle.op = "idle"
        BY DEF Idle
      <3>4. since[u] \in Nat /\ completed[u] \in Nat
        BY DEF SpacedInv, ProvenInv, Typed
      <3>5. since[u] > 0 => completed[u] >= since[u] /\ next.op # "pend"
        BY <1>2, <3>1, <3>3, <3>4 DEF Calm
      <3>6. \A s \in Requests : req'[s] # Idle /\ req'[s].u = u => s = r
        BY <3>1, <3>2
      <3>7. \A s \in Requests : req'[s].op \in {"save", "pend"} => req'[s] # Idle
        BY <3>3
      <3>8. next.op = "save" => /\ since[u] > 0 => next.email = user[u].email
                                /\ Alive(pending[u]) => pending[u].val = next.email
        BY <1>2, <3>1 DEF Calm
      <3>. QED
        BY <3>1, <3>2, <3>5, <3>6, <3>7, <3>8 DEF Calm
    <2>. QED
      BY <2>2, <2>3 DEF OneAtATime
  <1>. QED
    BY <1>1, <1>2

LEMMA StartsSpaced ==
    ASSUME SpacedInv, NEW r \in Requests, NEW u \in Users,
           \/ \E op \in {"verify", "change", "resend"}, k \in Keys : TooMany(r, op, u, k)
           \/ VerifyEmailSendCode(r, u)
           \/ \E right \in BOOLEAN : VerifyEmailComplete(r, u, right)
           \/ \E e \in Emails : ChangeEmailStart(r, u, e)
           \/ ChangeEmailResendCode(r, u)
           \/ \E right \in BOOLEAN : ChangeEmailComplete(r, u, right)
    PROVE  OneAtATime' /\ UNCHANGED user
  <1>0. /\ user[u] \in Row \cup {None} /\ pending[u].val \in Emails \cup {None}
        /\ UserFits(u) /\ ProvenInv /\ sent \in Seq(Emails)
    BY DEF SpacedInv, ProvenInv, Typed, Address
  <1>1. ASSUME NEW op \in {"verify", "change", "resend"}, NEW k \in Keys, TooMany(r, op, u, k)
        PROVE  OneAtATime' /\ UNCHANGED user
    BY <1>1, StartSpaced DEF TooMany, cache, ghosts
  <1>2. CASE VerifyEmailSendCode(r, u)
    <2>1. CurrentUser(r, "verify", u) /\ UNCHANGED <<user, pending, completed, since>>
      BY <1>2 DEF VerifyEmailSendCode, cache
    <2>2. CASE Ends
      BY <2>1, <2>2, StartSpaced DEF Ends
    <2>3. CASE ~Ends
      <3>. DEFINE next == [op |-> "verify_send", u |-> u, email |-> user[u].email]
      <3>1. GoesOn(r, next) /\ user[u].email # None
        BY <1>2, <2>3 DEF VerifyEmailSendCode
      <3>2. user[u] \in Row
        BY <1>0, <2>1, CurrentUserExists
      <3>3. next \in Request
        BY <3>1, <3>2, RequestsMade DEF Row
      <3>4. next.u = u /\ next # Idle /\ next.op = "verify_send"
        BY DEF Idle
      <3>. HIDE DEF next
      <3>. QED
        BY <2>1, <3>1, <3>3, <3>4, StartSpaced
    <2>. QED
      BY <2>2, <2>3
  <1>3. ASSUME NEW right \in BOOLEAN, VerifyEmailComplete(r, u, right)
        PROVE  OneAtATime' /\ UNCHANGED user
    <2>1. CurrentUser(r, "verify", u) /\ UNCHANGED <<user, pending, completed, since>>
      BY <1>3 DEF VerifyEmailComplete, cache
    <2>2. CASE Ends
      BY <2>1, <2>2, StartSpaced DEF Ends
    <2>3. CASE ~Ends
      <3>. DEFINE next == [op |-> "verify_save", u |-> u, n |-> otp[u].val]
      <3>1. GoesOn(r, next) /\ Alive(otp[u])
        BY <1>3, <2>3 DEF VerifyEmailComplete
      <3>2. otp[u].val \in Nat
        BY <1>0, <3>1 DEF UserFits
      <3>3. next \in Request
        BY <3>2, RequestsMade
      <3>4. next.u = u /\ next # Idle /\ next.op = "verify_save"
        BY DEF Idle
      <3>. HIDE DEF next
      <3>. QED
        BY <2>1, <3>1, <3>3, <3>4, StartSpaced
    <2>. QED
      BY <2>2, <2>3
  <1>4. ASSUME NEW e \in Emails, ChangeEmailStart(r, u, e)
        PROVE  OneAtATime' /\ UNCHANGED user
    <2>1. CurrentUser(r, "change", u) /\ UNCHANGED <<user, pending, completed, since>>
      BY <1>4 DEF ChangeEmailStart, cache
    <2>. DEFINE next == [op |-> "pend", u |-> u, email |-> e]
    <2>2. Ends \/ (GoesOn(r, next) /\ ~(completed[u] > 0))
      BY <1>4 DEF ChangeEmailStart
    <2>3. next \in Request /\ next.u = u /\ next # Idle /\ next.op = "pend"
      BY RequestsMade DEF Idle
    <2>. HIDE DEF next
    <2>4. ~(completed[u] > 0) => completed[u] = 0
      BY AccountsAssumption DEF SpacedInv, ProvenInv, Typed
    <2>. QED
      BY <2>1, <2>2, <2>3, <2>4, StartSpaced DEF Ends
  <1>5. CASE ChangeEmailResendCode(r, u)
    <2>1. CurrentUser(r, "resend", u) /\ UNCHANGED <<user, pending, completed, since>>
      BY <1>5 DEF ChangeEmailResendCode, cache
    <2>. DEFINE next == [op |-> "resend", u |-> u]
    <2>2. GoesOn(r, next)
      BY <1>5 DEF ChangeEmailResendCode
    <2>3. next \in Request /\ next.u = u /\ next # Idle /\ next.op = "resend"
      BY RequestsMade DEF Idle
    <2>. HIDE DEF next
    <2>. QED
      BY <2>1, <2>2, <2>3, StartSpaced
  <1>6. ASSUME NEW right \in BOOLEAN, ChangeEmailComplete(r, u, right)
        PROVE  OneAtATime' /\ UNCHANGED user
    <2>1. CurrentUser(r, "change", u) /\ UNCHANGED <<user, pending, completed, since>>
      BY <1>6 DEF ChangeEmailComplete, cache
    <2>. DEFINE save == [op |-> "save", u |-> u, email |-> pending[u].val, n |-> code[u].val]
                mark == [op |-> "mark", u |-> u]
    <2>2. \/ Ends
          \/ Alive(pending[u]) /\ Alive(code[u]) /\ GoesOn(r, save)
          \/ Alive(pending[u]) /\ GoesOn(r, mark)
      BY <1>6 DEF ChangeEmailComplete
    <2>3. mark \in Request /\ mark.u = u /\ mark # Idle /\ mark.op = "mark"
      BY RequestsMade DEF Idle
    <2>4. ASSUME Alive(pending[u]), Alive(code[u])
          PROVE  /\ save \in Request /\ save.u = u /\ save # Idle /\ save.op = "save"
                 /\ save.email = pending[u].val
      <3>1. code[u].val \in Nat /\ pending[u].val \in Emails
        BY <1>0, <2>4 DEF UserFits
      <3>. QED
        BY <3>1, RequestsMade DEF Idle
    <2>. HIDE DEF save, mark
    <2>5. CASE Ends
      BY <2>1, <2>5, StartSpaced DEF Ends
    <2>6. CASE Alive(pending[u]) /\ Alive(code[u]) /\ GoesOn(r, save)
      BY <2>1, <2>4, <2>6, StartSpaced
    <2>7. CASE GoesOn(r, mark)
      BY <2>1, <2>3, <2>7, StartSpaced
    <2>. QED
      BY <2>2, <2>5, <2>6, <2>7
  <1>. QED
    BY <1>1, <1>2, <1>3, <1>4, <1>5, <1>6

\* A request of u that goes on or ends, if it is no change, no mark and sets no
\* address.
LEMMA GoingOnSpaced ==
    ASSUME SpacedInv, NEW r \in Requests, NEW next \in Request, req[r].op # "idle",
           req[r].op # "mark", next # Idle => next.u = req[r].u,
           next.op \notin {"pend", "save"}, req' = [req EXCEPT ![r] = next],
           UNCHANGED <<completed, pending, since, disturbed>>,
           \A v \in Users : user'[v].email = user[v].email
    PROVE  OneAtATime'
  <1>1. /\ req \in [Requests -> Request] /\ Idle.op = "idle"
    BY DEF SpacedInv, ProvenInv, Typed, Idle
  <1>2. req'[r] = next /\ (\A s \in Requests \ {r} : req'[s] = req[s]) /\ req[r] # Idle
    BY <1>1
  <1>3. ASSUME NEW v \in Users \ disturbed' PROVE Calm(v)'
    <2>1. Calm(v)
      BY DEF SpacedInv, OneAtATime
    <2>. QED
      BY <1>1, <1>2, <2>1, CalmKept
  <1>. QED
    BY <1>3 DEF OneAtATime

LEMMA EmailKept ==
    ASSUME ProvenInv, NEW r \in Requests, VerifyEmailSave(r)
    PROVE  \A v \in Users : user'[v].email = user[v].email
  <1>1. req[r].op = "verify_save"
    BY DEF VerifyEmailSave
  <1>2. PICK u \in Users : u = req[r].u /\ user[u] \in Row
    BY <1>1, RequestUser
  <1>3. user' = [user EXCEPT ![u] = [user[u] EXCEPT !.email_verified = TRUE]]
    BY <1>2 DEF VerifyEmailSave
  <1>4. [user[u] EXCEPT !.email_verified = TRUE].email = user[u].email
    BY <1>2 DEF Row
  <1>5. user \in [Users -> Row \cup {None}]
    BY DEF ProvenInv, Typed
  <1>. QED
    BY <1>3, <1>4, <1>5

LEMMA SetPendingSpaced ==
    ASSUME SpacedInv, NEW r \in Requests, ChangeEmailSetPending(r)
    PROVE  OneAtATime' /\ UNCHANGED user
  <1>0. req[r].op = "pend" /\ ProvenInv
    BY DEF ChangeEmailSetPending, SpacedInv
  <1>u. PICK u \in Users : u = req[r].u
    BY <1>0, RequestUser
  <1>. DEFINE entry == [val |-> req[r].email, ttl |-> PendingTtl]
              next == [op |-> "resend", u |-> u]
  <1>1. /\ UNCHANGED <<user, completed, since, disturbed>>
        /\ \/ req' = [req EXCEPT ![r] = Idle] /\ UNCHANGED pending
           \/ /\ pending' = [pending EXCEPT ![u] = entry]
              /\ req' = [req EXCEPT ![r] = next]
    BY <1>u DEF ChangeEmailSetPending
  <1>2. /\ Idle \in Request /\ Idle.op = "idle" /\ next \in Request /\ next.op = "resend"
        /\ next.u = u
    BY RequestsMade DEF Idle
  <1>3. /\ req \in [Requests -> Request] /\ pending \in [Users -> Address]
        /\ since[u] \in Nat /\ req[r] # Idle
    BY <1>0, <1>2 DEF ProvenInv, Typed
  <1>. HIDE DEF entry, next
  <1>4. CASE req' = [req EXCEPT ![r] = Idle] /\ UNCHANGED pending
    BY <1>0, <1>1, <1>2, <1>4, GoingOnSpaced
  <1>5. CASE pending' = [pending EXCEPT ![u] = entry] /\ req' = [req EXCEPT ![r] = next]
    <2>1. \A v \in Users \ {u} : pending'[v] = pending[v]
      BY <1>3, <1>5
    <2>2. \A v \in Users \ disturbed' : v # u => Calm(v)'
      BY <1>u, <1>1, <1>2, <1>3, <1>5, <2>1, OthersCalm
    <2>3. ASSUME u \notin disturbed' PROVE Calm(u)'
      <3>1. Calm(u)
        BY <1>1, <2>3 DEF SpacedInv, OneAtATime
      <3>2. ~(since[u] > 0)
        BY <1>0, <1>u, <3>1 DEF Calm
      <3>3. req'[r] = next /\ \A s \in Requests \ {r} : req'[s] = req[s]
        BY <1>3, <1>5
      <3>4. \A s \in Requests : req'[s] # Idle /\ req'[s].u = u => s = r
        BY <1>u, <1>3, <3>1, <3>3 DEF Calm
      <3>5. \A s \in Requests : req'[s].op = "save" => s # r /\ req'[s] # Idle
        BY <1>2, <3>3
      <3>. QED
        BY <1>1, <3>2, <3>4, <3>5 DEF Calm
    <2>. QED
      BY <1>1, <2>2, <2>3 DEF OneAtATime
  <1>. QED
    BY <1>1, <1>4, <1>5

\* The only step that changes an address: if the user was not disturbed and changed
\* it lately, it is to the same address.
LEMMA SaveSpaced ==
    ASSUME SpacedInv, NEW r \in Requests, ChangeEmailSave(r)
    PROVE  /\ OneAtATime'
           /\ \A v \in Users : user'[v].email # user[v].email =>
                since[v] = 0 \/ v \in disturbed
  <1>0. req[r].op = "save" /\ ProvenInv
    BY DEF ChangeEmailSave, SpacedInv
  <1>u. PICK u \in Users : u = req[r].u
    BY <1>0, RequestUser
  <1>. DEFINE row == [user[u] EXCEPT !.email = req[r].email, !.email_verified = TRUE]
              next == [op |-> "mark", u |-> u]
  <1>1. /\ UNCHANGED <<pending, completed, disturbed>>
        /\ \/ req' = [req EXCEPT ![r] = Idle] /\ UNCHANGED <<user, since>>
           \/ /\ user' = [user EXCEPT ![u] = row]
              /\ since' = IF row.email = user[u].email THEN since
                          ELSE [since EXCEPT ![u] = CompletedTtl]
              /\ req' = [req EXCEPT ![r] = next]
    BY <1>u DEF ChangeEmailSave, cache
  <1>2. /\ Idle \in Request /\ Idle.op = "idle" /\ next \in Request /\ next.op = "mark"
        /\ next.u = u
    BY RequestsMade DEF Idle
  <1>3. /\ req \in [Requests -> Request] /\ user \in [Users -> Row \cup {None}]
        /\ since \in [Users -> 0..CompletedTtl]
        /\ since[u] \in Nat /\ req[r] # Idle /\ user[u] \in Row /\ CompletedTtl \in Nat
    <2>1. /\ req \in [Requests -> Request] /\ user \in [Users -> Row \cup {None}]
          /\ since \in [Users -> 0..CompletedTtl]
      BY <1>0 DEF ProvenInv, Typed
    <2>2. CompletedTtl \in Nat
      BY AccountsAssumption
    <2>3. u \in Users /\ req[r] # Idle /\ user[u] \in Row
      BY <1>0, <1>u, RequestUser
    <2>4. since[u] \in Nat
      BY <2>1, <2>2, <2>3
    <2>. QED
      BY <2>1, <2>2, <2>3, <2>4
  <1>4. row.email = req[r].email
    BY <1>3 DEF Row
  <1>. HIDE DEF row, next
  <1>5. CASE req' = [req EXCEPT ![r] = Idle] /\ UNCHANGED <<user, since>>
    BY <1>0, <1>1, <1>2, <1>5, GoingOnSpaced
  <1>6. CASE /\ user' = [user EXCEPT ![u] = row]
             /\ since' = IF row.email = user[u].email THEN since
                         ELSE [since EXCEPT ![u] = CompletedTtl]
             /\ req' = [req EXCEPT ![r] = next]
    <2>1. /\ user'[u] = row /\ \A v \in Users \ {u} : user'[v] = user[v] /\ since'[v] = since[v]
      BY <1>3, <1>6
    <2>2. \A v \in Users \ disturbed' : v # u => Calm(v)'
      BY <1>u, <1>1, <1>2, <1>3, <1>6, <2>1, OthersCalm
    <2>3. ASSUME u \notin disturbed'
          PROVE  Calm(u)' /\ (since[u] > 0 => row.email = user[u].email)
      <3>1. Calm(u)
        BY <1>1, <2>3 DEF SpacedInv, OneAtATime
      <3>2. /\ since[u] > 0 => row.email = user[u].email
            /\ Alive(pending[u]) => pending[u].val = row.email
        BY <1>0, <1>u, <1>4, <3>1 DEF Calm
      <3>3. req'[r] = next /\ \A s \in Requests \ {r} : req'[s] = req[s]
        BY <1>3, <1>6
      <3>4. \A s \in Requests : req'[s] # Idle /\ req'[s].u = u => s = r
        BY <1>u, <1>3, <3>1, <3>3 DEF Calm
      <3>5. \A s \in Requests : req'[s].op \in {"pend", "save"} => s # r /\ req'[s] # Idle
        BY <1>2, <3>3
      <3>6. req'[r].op = "mark" /\ req'[r].u = u
        BY <1>2, <3>3
      <3>. QED
        BY <1>1, <2>1, <3>2, <3>4, <3>5, <3>6 DEF Calm
    <2>4. ASSUME NEW v \in Users, user'[v].email # user[v].email
          PROVE  since[v] = 0 \/ v \in disturbed
      BY <1>1, <1>3, <2>1, <2>3, <2>4
    <2>. QED
      BY <2>2, <2>3, <2>4 DEF OneAtATime
  <1>. QED
    BY <1>1, <1>5, <1>6

LEMMA MarkSpaced ==
    ASSUME SpacedInv, NEW r \in Requests, ChangeEmailMark(r)
    PROVE  OneAtATime' /\ UNCHANGED user
  <1>0. req[r].op = "mark" /\ ProvenInv
    BY DEF ChangeEmailMark, SpacedInv
  <1>u. PICK u \in Users : u = req[r].u
    BY <1>0, RequestUser
  <1>1. /\ UNCHANGED <<user, pending, since, disturbed>>
        /\ completed' = [completed EXCEPT ![u] = CompletedTtl]
        /\ req' = [req EXCEPT ![r] = Idle]
    BY <1>u DEF ChangeEmailMark, ghosts
  <1>2. /\ Idle \in Request /\ Idle.op = "idle"
    BY DEF Idle, Request
  <1>3. /\ req \in [Requests -> Request] /\ completed \in [Users -> 0..CompletedTtl]
        /\ since[u] <= CompletedTtl /\ req[r] # Idle
    BY <1>0, <1>2, AccountsAssumption DEF ProvenInv, Typed
  <1>4. completed'[u] = CompletedTtl /\ \A v \in Users \ {u} : completed'[v] = completed[v]
    BY <1>1, <1>3
  <1>5. \A v \in Users \ disturbed' : v # u => Calm(v)'
    BY <1>u, <1>1, <1>2, <1>3, <1>4, OthersCalm
  <1>6. ASSUME u \notin disturbed' PROVE Calm(u)'
    <2>1. Calm(u)
      BY <1>1, <1>6 DEF SpacedInv, OneAtATime
    <2>2. req'[r] = Idle /\ \A s \in Requests \ {r} : req'[s] = req[s]
      BY <1>1, <1>3
    <2>3. completed'[u] >= since'[u]
      BY <1>1, <1>3, <1>4, AccountsAssumption DEF ProvenInv, Typed
    <2>. QED
      BY <1>1, <1>2, <2>1, <2>2, <2>3 DEF Calm
  <1>. QED
    BY <1>1, <1>5, <1>6 DEF OneAtATime

LEMMA TickSpaced ==
    ASSUME SpacedInv, Tick
    PROVE  OneAtATime' /\ UNCHANGED user
  <1>1. UNCHANGED <<user, req, disturbed>>
    BY DEF Tick
  <1>2. ASSUME NEW v \in Users \ disturbed' PROVE Calm(v)'
    <2>1. Calm(v)
      BY <1>1 DEF SpacedInv, OneAtATime
    <2>2. /\ since[v] \in Nat /\ completed[v] \in Nat /\ pending[v] \in Address
      BY AccountsAssumption DEF SpacedInv, ProvenInv, Typed
    <2>3. Alive(pending'[v]) => Alive(pending[v]) /\ pending'[v].val = pending[v].val
      BY <2>2, OlderTyped DEF Tick
    <2>4. since'[v] = Less(since[v]) /\ completed'[v] = Less(completed[v])
      BY DEF Tick
    <2>5. /\ since'[v] > 0 => since[v] > 0
          /\ since'[v] > 0 /\ completed[v] >= since[v] => completed'[v] >= since'[v]
      BY <2>2, <2>4 DEF Less
    <2>. QED
      BY <1>1, <2>1, <2>3, <2>5 DEF Calm
  <1>. QED
    BY <1>1, <1>2 DEF OneAtATime

LEMMA RestartSpaced ==
    ASSUME SpacedInv, Restart
    PROVE  OneAtATime' /\ UNCHANGED user
  <1>1. /\ UNCHANGED <<user, pending, completed, since>>
        /\ disturbed' = disturbed \cup {u \in Users : Busy(u)}
        /\ req' = [r \in Requests |-> Idle]
    BY DEF Restart, cache
  <1>2. ASSUME NEW v \in Users \ disturbed' PROVE Calm(v)'
    <2>1. Calm(v) /\ ~Busy(v)
      BY <1>1 DEF SpacedInv, OneAtATime
    <2>2. \A s \in Requests : req[s].op = "mark" => req[s].u # v
      BY <2>1 DEF Busy, Idle
    <2>. QED
      BY <1>1, <2>1, <2>2, CalmKept DEF Idle
  <1>. QED
    BY <1>1, <1>2 DEF OneAtATime

LEMMA CreateSpaced ==
    ASSUME SpacedInv, NEW u \in Users, NEW n, NEW e, NEW s, Create(u, n, e, s)
    PROVE  OneAtATime' /\ \A v \in Users : Exists(v) => user'[v] = user[v]
  <1>. DEFINE row == [username |-> n, email |-> e, email_verified |-> FALSE, superuser |-> s]
  <1>1. /\ ~Exists(u) /\ user' = [user EXCEPT ![u] = row]
        /\ UNCHANGED <<pending, completed, req, disturbed, since>>
        /\ user \in [Users -> Row \cup {None}]
    BY DEF Create, cache, ghosts, SpacedInv, ProvenInv, Typed
  <1>. HIDE DEF row
  <1>2. \A v \in Users \ {u} : user'[v] = user[v]
    BY <1>1
  <1>3. ASSUME NEW v \in Users \ disturbed' PROVE Calm(v)'
    <2>1. Calm(v)
      BY <1>1 DEF SpacedInv, OneAtATime
    <2>2. CASE v # u
      BY <1>1, <1>2, <2>1, <2>2, CalmKept
    <2>3. CASE v = u
      <3>1. since[u] = 0 /\ ~Alive(pending[u])
        BY <1>1 DEF SpacedInv, ProvenInv, UserFits
      <3>2. \A q \in Requests : req[q] # Idle => req[q].u # u
        BY <1>1 DEF SpacedInv, ProvenInv, RequestFits
      <3>3. \A q \in Requests : req[q].op = "save" => req[q] # Idle
        BY DEF Idle
      <3>. QED
        BY <1>1, <2>1, <2>3, <3>1, <3>2, <3>3 DEF Calm
    <2>. QED
      BY <2>2, <2>3
  <1>. QED
    BY <1>1, <1>2, <1>3 DEF OneAtATime, Exists

LEMMA NothingSpaced ==
    ASSUME SpacedInv, UNCHANGED <<user, pending, completed, req, disturbed, since>>
    PROVE  OneAtATime'
  <1>1. ASSUME NEW v \in Users \ disturbed' PROVE Calm(v)'
    BY CalmKept DEF SpacedInv, OneAtATime
  <1>. QED
    BY <1>1 DEF OneAtATime

SpacedStep ==
    /\ OneAtATime'
    /\ \A u \in Users : Exists(u) /\ user'[u].email # user[u].email
         => since[u] = 0 \/ u \in disturbed

LEMMA RequestSpaced ==
    ASSUME SpacedInv, NEW r \in Requests, Verify(r) \/ Change(r)
    PROVE  SpacedStep
  <1>0. ProvenInv /\ Idle \in Request /\ Idle.op = "idle"
    BY DEF SpacedInv, Request, Idle
  <1>1. CASE VerifyEmailSetCode(r)
    BY <1>0, <1>1, GoingOnSpaced DEF VerifyEmailSetCode, ghosts, SpacedStep
  <1>2. CASE VerifyEmailSave(r)
    BY <1>0, <1>2, EmailKept, GoingOnSpaced DEF VerifyEmailSave, cache, SpacedStep
  <1>3. CASE ChangeEmailSetPending(r)
    BY <1>3, SetPendingSpaced DEF SpacedStep
  <1>4. CASE ResendRead(r)
    <2>1. PICK u \in Users : u = req[r].u /\ UserFits(u)
      BY <1>0, <1>4, RequestUser DEF ResendRead
    <2>. DEFINE next == IF Alive(pending[u])
                        THEN [op |-> "code", u |-> u, email |-> pending[u].val] ELSE Idle
    <2>2. /\ req[r].op = "resend" /\ req' = [req EXCEPT ![r] = next]
          /\ UNCHANGED <<user, pending, completed, since, disturbed>>
      BY <1>4, <2>1 DEF ResendRead, cache, ghosts
    <2>3. Alive(pending[u]) => pending[u].val \in Emails
      BY <2>1 DEF UserFits
    <2>4. next \in Request /\ next.op \in {"code", "idle"} /\ (next # Idle => next.u = u)
      BY <1>0, <2>3, RequestsMade
    <2>. HIDE DEF next
    <2>. QED
      BY <2>1, <2>2, <2>4, GoingOnSpaced DEF SpacedStep
  <1>5. CASE ResendSetCode(r)
    BY <1>0, <1>5, GoingOnSpaced DEF ResendSetCode, SpacedStep
  <1>6. CASE ChangeEmailSave(r)
    BY <1>6, SaveSpaced DEF SpacedStep
  <1>7. CASE ChangeEmailMark(r)
    BY <1>7, MarkSpaced DEF SpacedStep
  <1>8. ASSUME NEW u \in Users,
               \/ \E op \in {"verify", "change", "resend"}, k \in Keys : TooMany(r, op, u, k)
               \/ VerifyEmailSendCode(r, u)
               \/ \E right \in BOOLEAN : VerifyEmailComplete(r, u, right)
               \/ \E e \in Emails : ChangeEmailStart(r, u, e)
               \/ ChangeEmailResendCode(r, u)
               \/ \E right \in BOOLEAN : ChangeEmailComplete(r, u, right)
        PROVE  SpacedStep
    BY <1>8, StartsSpaced DEF SpacedStep
  <1>9. {"verify_email_send", "verify_email", "change_email", "change_email_send"} \subseteq Keys
    BY DEF Keys
  <1>10. CASE Verify(r)
    BY <1>1, <1>2, <1>8, <1>9, <1>10, Zenon DEF Verify
  <1>11. CASE Change(r)
    BY <1>3, <1>4, <1>5, <1>6, <1>7, <1>8, <1>9, <1>11, Zenon DEF Change
  <1>. QED
    BY <1>10, <1>11

LEMMA NextSpaced ==
    ASSUME SpacedInv, [Next]_vars
    PROVE  SpacedStep
  <1>1. ASSUME NEW u \in Users, NEW e \in Emails, SignUp(u, e) PROVE SpacedStep
    BY <1>1, CreateSpaced DEF SignUp, SpacedStep
  <1>2. ASSUME NEW u \in Users, NEW n \in Names, CreateSuperuser(u, n) PROVE SpacedStep
    BY <1>2, CreateSpaced DEF CreateSuperuser, SpacedStep
  <1>3. ASSUME NEW u \in Users, TokenExpires(u) PROVE SpacedStep
    BY <1>3, NothingSpaced DEF TokenExpires, cache, ghosts, SpacedStep
  <1>4. ASSUME NEW login \in Emails \cup Names, SignIn(login) PROVE SpacedStep
    BY <1>4, NothingSpaced DEF SignIn, cache, ghosts, SpacedStep
  <1>5. CASE UNCHANGED vars
    BY <1>5, NothingSpaced DEF vars, SpacedStep
  <1>6. CASE Tick
    BY <1>6, TickSpaced DEF SpacedStep
  <1>7. CASE Restart
    BY <1>7, RestartSpaced DEF SpacedStep
  <1>. QED
    BY <1>1, <1>2, <1>3, <1>4, <1>5, <1>6, <1>7, RequestSpaced DEF Next

LEMMA AlwaysSpaced == Spec => []SpacedInv
  <1>1. Init => SpacedInv
    <2>1. ASSUME Init PROVE OneAtATime
      BY <2>1 DEF Init, OneAtATime, Calm, Alive, Gone, Idle
    <2>. QED
      BY <2>1, InitProven DEF SpacedInv
  <1>2. SpacedInv /\ [Next]_vars => SpacedInv'
    BY NextProven, NextSpaced DEF SpacedInv, SpacedStep
  <1>. QED
    BY <1>1, <1>2, PTL DEF Spec

\* The address of a row changes twice within the life of the mark of a change
\* (change_email:{u}:completed) only for users of whom two requests overlapped, or
\* one was cut off by a restart between the row and the mark.
THEOREM ChangesAreSpaced == Spec => ChangesSpaced
  <1>1. SpacedInv /\ [Next]_vars =>
          [\A u \in Users : Exists(u) /\ user'[u].email # user[u].email
             => since[u] = 0 \/ u \in disturbed]_vars
    BY NextSpaced DEF SpacedStep
  <1>. QED
    BY <1>1, AlwaysSpaced, PTL DEF Spec, ChangesSpaced

-----------------------------------------------------------------------------
(* Answers to a code                                                       *)

LEMMA CountedTyped ==
    ASSUME NEW w \in Window
    PROVE  /\ Counted(w) \in 0..Limit
           /\ w.n > 0 => Counted(w) > 0
  BY AccountsAssumption DEF Counted, Window

\* What the window of a limiter becomes.
AfterHit(w) ==
    IF w.ttl = 0 THEN [n |-> 1, ttl |-> Period]
    ELSE IF w.n = Limit THEN [n |-> w.n + 1, ttl |-> Period]
    ELSE IF w.n < Limit THEN [n |-> w.n + 1, ttl |-> w.ttl] ELSE w

LEMMA WithinHit ==
    ASSUME NEW x \in Nat, NEW w \in Window, NEW a \in 1..OtpTtl, Within(x, w, a)
    PROVE  /\ Within(x, AfterHit(w), a)
           /\ w.ttl = 0 \/ w.n < Limit => Within(x + 1, AfterHit(w), a)
           /\ x <= 2 * Limit - 1
  <1>1. /\ Limit \in Nat \ {0} /\ Period \in Nat \ {0} /\ OtpTtl \in Nat /\ OtpTtl < Period
        /\ a \in Nat \ {0} /\ a < Period /\ w.n \in Nat /\ w.ttl \in Nat
    BY AccountsAssumption DEF Window
  <1>2. CASE w.ttl = 0
    BY <1>1, <1>2 DEF Within, AfterHit, Counted
  <1>3. CASE w.ttl # 0 /\ w.n = Limit
    BY <1>1, <1>3 DEF Within, AfterHit, Counted
  <1>4. CASE w.ttl # 0 /\ w.n < Limit
    BY <1>1, <1>4 DEF Within, AfterHit, Counted
  <1>5. CASE w.ttl # 0 /\ w.n > Limit
    BY <1>1, <1>5 DEF Within, AfterHit, Counted
  <1>. QED
    BY <1>1, <1>2, <1>3, <1>4, <1>5

\* A code that was not tried yet is within, and a tick less of both changes nothing.
LEMMA WithinNew ==
    ASSUME NEW w \in Window, NEW a \in 1..OtpTtl, w.ttl > 0 => w.n > 0
    PROVE  Within(0, w, a)
  <1>1. Limit \in Nat \ {0} /\ w.n \in Nat /\ w.ttl \in Nat
    BY AccountsAssumption DEF Window
  <1>. QED
    BY <1>1 DEF Within, Counted

LEMMA WithinTick ==
    ASSUME NEW x \in Nat, NEW w \in Window, NEW a \in 1..OtpTtl, Within(x, w, a), a > 1
    PROVE  Within(x, IF w.ttl > 1 THEN [w EXCEPT !.ttl = w.ttl - 1] ELSE [n |-> 0, ttl |-> 0],
                  a - 1)
  <1>1. Limit \in Nat \ {0} /\ w.n \in Nat /\ w.ttl \in Nat /\ a \in Nat
    BY AccountsAssumption DEF Window
  <1>2. CASE w.ttl > 1
    <2>. DEFINE v == [w EXCEPT !.ttl = w.ttl - 1]
    <2>1. v.n = w.n /\ v.ttl = w.ttl - 1
      BY <1>1 DEF Window
    <2>2. Counted(v) = Counted(w)
      BY <2>1 DEF Counted
    <2>. HIDE DEF v
    <2>3. Within(x, v, a - 1)
      BY <1>1, <1>2, <2>1, <2>2 DEF Within, Counted
    <2>. QED
      BY <1>2, <2>3 DEF v
  <1>3. CASE ~(w.ttl > 1)
    BY <1>1, <1>3 DEF Within, Counted
  <1>. QED
    BY <1>2, <1>3

LEMMA CodesLive ==
    ASSUME ProvenInv, NEW u \in Users, NEW k \in Kinds
    PROVE  /\ CodeOf(u, k) \in Code /\ CodeOf(u, k).ttl \in Nat
           /\ rate[u][k] \in Window /\ k \in Keys /\ LimitOf(k) = Limit
           /\ rate[u][k].ttl > 0 => rate[u][k].n > 0
           /\ Alive(CodeOf(u, k)) =>
                /\ CodeOf(u, k).val \in 1..Len(sent) /\ CodeOf(u, k).val \in 1..MaxCodes
                /\ CodeOf(u, k).ttl \in 1..OtpTtl
                /\ tries[CodeOf(u, k).val] \in Nat
  <1>1. /\ otp[u] \in Code /\ code[u] \in Code /\ UserFits(u) /\ k \in Keys /\ LimitOf(k) = Limit
        /\ OtpTtl \in Nat /\ MaxCodes \in Nat /\ Len(sent) \in Nat /\ Len(sent) <= MaxCodes
        /\ tries \in [1..MaxCodes -> Nat]
    BY AccountsAssumption DEF ProvenInv, Typed, Kinds, Keys, LimitOf
  <1>2. rate[u][k] \in Window /\ (rate[u][k].ttl > 0 => rate[u][k].n > 0)
    BY <1>1 DEF ProvenInv, Typed
  <1>3. CodeOf(u, k) \in Code /\ (Alive(CodeOf(u, k)) => CodeOf(u, k).val \in 1..Len(sent))
    BY <1>1 DEF CodeOf, UserFits
  <1>4. CodeOf(u, k).ttl \in Nat /\ (Alive(CodeOf(u, k)) => CodeOf(u, k).ttl \in 1..OtpTtl)
    BY <1>1, <1>3 DEF Code, Alive
  <1>. QED
    BY <1>1, <1>2, <1>3, <1>4

LEMMA StartTries ==
    ASSUME TriesInv, NEW u \in Users, NEW key \in Keys, Hit(u, key), UNCHANGED <<otp, code, sent>>,
           \/ UNCHANGED tries
           \/ /\ key \in Kinds /\ Alive(CodeOf(u, key)) /\ Allowed(u, key)
              /\ Compared(CodeOf(u, key).val)
    PROVE  TriesWithin' /\ TriesBounded'
  <1>1. /\ ProvenInv /\ TriesWithin /\ TriesBounded /\ rate \in [Users -> [Keys -> Window]]
        /\ tries \in [1..MaxCodes -> Nat]
    BY DEF TriesInv, ProvenInv, Typed
  <1>2. \A v \in Users, l \in Kinds : CodeOf(v, l)' = CodeOf(v, l)
    BY DEF CodeOf
  <1>3. /\ \A v \in Users, l \in Kinds : <<v, l>> # <<u, key>> => rate'[v][l] = rate[v][l]
        /\ key \in Kinds => rate'[u][key] = AfterHit(rate[u][key])
    <2>1. Kinds \subseteq Keys
      BY DEF Kinds, Keys
    <2>2. key \in Kinds => LimitOf(key) = Limit
      BY DEF Kinds, LimitOf
    <2>. QED
      BY <1>1, <2>1, <2>2 DEF Hit, AfterHit
  <1>4. CASE UNCHANGED tries
    <2>1. ASSUME NEW v \in Users, NEW l \in Kinds, Alive(CodeOf(v, l))
          PROVE  Within(tries'[CodeOf(v, l).val], rate'[v][l], CodeOf(v, l).ttl)
      <3>1. Within(tries[CodeOf(v, l).val], rate[v][l], CodeOf(v, l).ttl)
        BY <1>1, <2>1 DEF TriesWithin
      <3>2. Within(tries[CodeOf(v, l).val], AfterHit(rate[v][l]), CodeOf(v, l).ttl)
        BY <1>1, <2>1, <3>1, CodesLive, WithinHit
      <3>3. rate'[v][l] = rate[v][l] \/ rate'[v][l] = AfterHit(rate[v][l])
        BY <1>3
      <3>. QED
        BY <1>4, <3>1, <3>2, <3>3
    <2>2. TriesWithin'
      <3>1. /\ \A n \in 1..MaxCodes : n > Len(sent') => tries'[n] = 0
        BY <1>1, <1>4 DEF TriesWithin
      <3>2. \A v, w \in Users, k, l \in Kinds :
              Alive(CodeOf(v, k)) /\ Alive(CodeOf(w, l)) /\ CodeOf(v, k).val = CodeOf(w, l).val
                => v = w /\ k = l
        BY <1>1 DEF TriesWithin
      <3>. QED
        BY <1>2, <2>1, <3>1, <3>2 DEF TriesWithin
    <2>3. TriesBounded'
      BY <1>1, <1>4 DEF TriesBounded
    <2>. QED
      BY <2>2, <2>3
  <1>5. CASE /\ key \in Kinds /\ Alive(CodeOf(u, key)) /\ Allowed(u, key)
             /\ Compared(CodeOf(u, key).val)
    <2>1. PICK n \in 1..MaxCodes : n = CodeOf(u, key).val /\ n \in 1..Len(sent)
      BY <1>1, <1>5, CodesLive
    <2>2. tries'[n] = tries[n] + 1 /\ \A m \in 1..MaxCodes \ {n} : tries'[m] = tries[m]
      BY <1>1, <1>5, <2>1 DEF Compared
    <2>3. Within(tries[n], rate[u][key], CodeOf(u, key).ttl)
      BY <1>1, <1>5, <2>1 DEF TriesWithin
    <2>4. Within(tries[n] + 1, AfterHit(rate[u][key]), CodeOf(u, key).ttl) /\ tries[n] + 1 \in Nat
      <3>1. rate[u][key].ttl = 0 \/ rate[u][key].n < Limit
        BY <1>1, <1>5, CodesLive DEF Allowed
      <3>. QED
        BY <1>1, <1>5, <2>1, <2>3, <3>1, CodesLive, WithinHit
    <2>5. ASSUME NEW v \in Users, NEW l \in Kinds, Alive(CodeOf(v, l))
          PROVE  Within(tries'[CodeOf(v, l).val], rate'[v][l], CodeOf(v, l).ttl)
      <3>1. CASE v = u /\ l = key
        BY <1>3, <2>1, <2>2, <2>4, <3>1
      <3>2. CASE ~(v = u /\ l = key)
        <4>1. CodeOf(v, l).val \in 1..MaxCodes \ {n}
          BY <1>1, <1>5, <2>1, <2>5, <3>2, CodesLive DEF TriesWithin
        <4>2. rate'[v][l] = rate[v][l]
          BY <1>3, <3>2
        <4>3. Within(tries[CodeOf(v, l).val], rate[v][l], CodeOf(v, l).ttl)
          BY <1>1, <2>5 DEF TriesWithin
        <4>. QED
          BY <2>2, <4>1, <4>2, <4>3
      <3>. QED
        BY <3>1, <3>2
    <2>6. TriesWithin'
      <3>1. ASSUME NEW m \in 1..MaxCodes, m > Len(sent') PROVE tries'[m] = 0
        BY <1>1, <2>1, <2>2, <3>1 DEF TriesWithin, ProvenInv, Typed
      <3>2. \A v, w \in Users, k, l \in Kinds :
              Alive(CodeOf(v, k)) /\ Alive(CodeOf(w, l)) /\ CodeOf(v, k).val = CodeOf(w, l).val
                => v = w /\ k = l
        BY <1>1 DEF TriesWithin
      <3>. QED
        BY <1>2, <2>5, <3>1, <3>2 DEF TriesWithin
    <2>7. TriesBounded'
      <3>1. tries'[n] <= 2 * Limit - 1
        <4>1. Within(tries'[n], rate'[u][key], CodeOf(u, key).ttl) /\ tries'[n] \in Nat
          BY <1>3, <1>5, <2>2, <2>4
        <4>2. rate'[u][key] \in Window
          BY <1>1, HitTyped, <1>5, CodesLive DEF ProvenInv
        <4>. QED
          BY <1>1, <1>5, <4>1, <4>2, CodesLive, WithinHit
      <3>. QED
        BY <1>1, <2>2, <3>1 DEF TriesBounded
    <2>. QED
      BY <2>6, <2>7
  <1>. QED
    BY <1>4, <1>5

LEMMA NothingTried ==
    ASSUME TriesInv, UNCHANGED <<otp, code, sent, rate, tries>>
    PROVE  TriesWithin' /\ TriesBounded'
  <1>1. \A v \in Users, l \in Kinds : CodeOf(v, l)' = CodeOf(v, l)
    BY DEF CodeOf
  <1>2. TriesBounded'
    BY DEF TriesInv, TriesBounded
  <1>3. TriesWithin'
    BY <1>1 DEF TriesInv, TriesWithin
  <1>. QED
    BY <1>2, <1>3

\* A new code for u.
LEMMA CodeSetTries ==
    ASSUME TriesInv, NEW u \in Users, NEW k \in Kinds, NEW e \in Emails, MakeOtpCode(e),
           CodeOf(u, k)' = OtpEntry(Len(sent')),
           \A v \in Users, l \in Kinds : <<v, l>> # <<u, k>> => CodeOf(v, l)' = CodeOf(v, l),
           UNCHANGED <<rate, tries>>
    PROVE  TriesWithin' /\ TriesBounded'
  <1>1. ProvenInv /\ TriesWithin /\ TriesBounded
    BY DEF TriesInv
  <1>2. PICK n \in Nat : n = Len(sent) + 1
    BY DEF TriesInv, ProvenInv, Typed
  <1>3. /\ Len(sent') = n /\ n \in 1..MaxCodes /\ n > Len(sent) /\ Len(sent) \in Nat
        /\ CodeOf(u, k)' = [val |-> n, ttl |-> OtpTtl] /\ OtpTtl \in 1..OtpTtl
    BY <1>1, <1>2, AccountsAssumption
       DEF OtpEntry, MakeOtpCode, EmailVerificationMessage, ProvenInv, Typed
  <1>4. tries[n] = 0
    BY <1>1, <1>3 DEF TriesWithin
  <1>5. \A v \in Users, l \in Kinds : Alive(CodeOf(v, l)) => CodeOf(v, l).val # n
    BY <1>1, <1>2, <1>3, CodesLive
  <1>6. ASSUME NEW v \in Users, NEW l \in Kinds, Alive(CodeOf(v, l)')
        PROVE  Within(tries[CodeOf(v, l)'.val], rate[v][l], CodeOf(v, l)'.ttl)
    <2>1. CASE v = u /\ l = k
      BY <1>1, <1>3, <1>4, <2>1, CodesLive, WithinNew
    <2>2. CASE ~(v = u /\ l = k)
      <3>1. CodeOf(v, l)' = CodeOf(v, l)
        BY <2>2
      <3>. QED
        BY <1>1, <1>6, <3>1 DEF TriesWithin
    <2>. QED
      BY <2>1, <2>2
  <1>7. ASSUME NEW v \in Users, NEW w \in Users, NEW l \in Kinds, NEW m \in Kinds,
               Alive(CodeOf(v, l)'), Alive(CodeOf(w, m)'), CodeOf(v, l)'.val = CodeOf(w, m)'.val
        PROVE  v = w /\ l = m
    <2>1. CASE v = u /\ l = k /\ ~(w = u /\ m = k)
      BY <1>3, <1>5, <1>7, <2>1
    <2>2. CASE w = u /\ m = k /\ ~(v = u /\ l = k)
      BY <1>3, <1>5, <1>7, <2>2
    <2>3. CASE ~(w = u /\ m = k) /\ ~(v = u /\ l = k)
      BY <1>1, <1>7, <2>3 DEF TriesWithin
    <2>. QED
      BY <2>1, <2>2, <2>3
  <1>8. TriesWithin'
    <2>1. \A m \in 1..MaxCodes : m > Len(sent') => tries'[m] = 0
      BY <1>1, <1>3 DEF TriesWithin
    <2>. QED
      BY <1>6, <1>7, <2>1 DEF TriesWithin, Alive
  <1>9. TriesBounded'
    BY <1>1 DEF TriesBounded
  <1>. QED
    BY <1>8, <1>9

LEMMA TickTries ==
    ASSUME TriesInv, Tick
    PROVE  TriesWithin' /\ TriesBounded'
  <1>1. ProvenInv /\ TriesWithin /\ TriesBounded /\ UNCHANGED <<sent, tries>>
    BY DEF TriesInv, Tick
  <1>2. ASSUME NEW v \in Users, NEW l \in Kinds, Alive(CodeOf(v, l)')
        PROVE  /\ Alive(CodeOf(v, l)) /\ CodeOf(v, l)'.val = CodeOf(v, l).val
               /\ CodeOf(v, l)'.ttl = CodeOf(v, l).ttl - 1
    <2>1. CodeOf(v, l)' = Older(CodeOf(v, l))
      BY DEF CodeOf, Tick
    <2>2. CodeOf(v, l) \in Code
      BY <1>1, CodesLive
    <2>. QED
      BY <1>2, <2>1, <2>2, OlderTyped
  <1>3. ASSUME NEW v \in Users, NEW l \in Kinds, Alive(CodeOf(v, l)')
        PROVE  Within(tries[CodeOf(v, l)'.val], rate'[v][l], CodeOf(v, l)'.ttl)
    <2>0. /\ Alive(CodeOf(v, l)) /\ CodeOf(v, l)'.val = CodeOf(v, l).val
          /\ CodeOf(v, l)'.ttl = CodeOf(v, l).ttl - 1
      BY <1>2, <1>3
    <2>1. Within(tries[CodeOf(v, l).val], rate[v][l], CodeOf(v, l).ttl)
      BY <1>1, <2>0 DEF TriesWithin
    <2>2. CodeOf(v, l).ttl > 1 /\ CodeOf(v, l).ttl \in 1..OtpTtl
          /\ rate[v][l] \in Window /\ tries[CodeOf(v, l).val] \in Nat
      BY <1>1, <1>3, <2>0, CodesLive DEF Alive
    <2>3. rate'[v][l] = IF rate[v][l].ttl > 1 THEN [rate[v][l] EXCEPT !.ttl = rate[v][l].ttl - 1]
                        ELSE [n |-> 0, ttl |-> 0]
      BY <1>1, CodesLive DEF Tick
    <2>4. Within(tries[CodeOf(v, l).val],
                 IF rate[v][l].ttl > 1 THEN [rate[v][l] EXCEPT !.ttl = rate[v][l].ttl - 1]
                 ELSE [n |-> 0, ttl |-> 0], CodeOf(v, l).ttl - 1)
      BY <2>1, <2>2, WithinTick
    <2>. QED
      BY <2>0, <2>3, <2>4
  <1>4. ASSUME NEW v \in Users, NEW w \in Users, NEW l \in Kinds, NEW m \in Kinds,
               Alive(CodeOf(v, l)'), Alive(CodeOf(w, m)'), CodeOf(v, l)'.val = CodeOf(w, m)'.val
        PROVE  v = w /\ l = m
    BY <1>1, <1>2, <1>4 DEF TriesWithin
  <1>5. TriesWithin'
    <2>1. \A m \in 1..MaxCodes : m > Len(sent') => tries'[m] = 0
      BY <1>1 DEF TriesWithin
    <2>. QED
      BY <1>1, <1>3, <1>4, <2>1 DEF TriesWithin, Alive
  <1>6. TriesBounded'
    BY <1>1 DEF TriesBounded
  <1>. QED
    BY <1>5, <1>6

LEMMA RequestTries ==
    ASSUME TriesInv, NEW r \in Requests, Verify(r) \/ Change(r)
    PROVE  TriesWithin' /\ TriesBounded'
  <1>0. ProvenInv /\ Kinds = {"verify_email", "change_email"}
        /\ {"verify_email_send", "verify_email", "change_email", "change_email_send"} \subseteq Keys
    BY DEF TriesInv, Kinds, Keys
  <1>c. \A u \in Users : CodeOf(u, "verify_email") = otp[u] /\ CodeOf(u, "change_email") = code[u]
    BY DEF CodeOf
  <1>1. CASE VerifyEmailSetCode(r)
    <2>1. CASE UNCHANGED <<sent, otp>>
      BY <1>1, <2>1, NothingTried DEF VerifyEmailSetCode, ghosts
    <2>2. CASE ~UNCHANGED <<sent, otp>>
      <3>0. req[r].op = "verify_send" /\ otp \in [Users -> Code]
        BY <1>0, <1>1 DEF VerifyEmailSetCode, ProvenInv, Typed
      <3>1. PICK u \in Users, e \in Emails : u = req[r].u /\ e = req[r].email
        BY <1>0, <3>0, RequestUser, RequestFields
      <3>2. /\ MakeOtpCode(e) /\ otp' = [otp EXCEPT ![u] = OtpEntry(Len(sent'))]
            /\ UNCHANGED <<code, rate, tries>>
        BY <1>1, <2>2, <3>1 DEF VerifyEmailSetCode, ghosts
      <3>3. /\ CodeOf(u, "verify_email")' = OtpEntry(Len(sent'))
            /\ \A v \in Users, l \in Kinds : <<v, l>> # <<u, "verify_email">>
                 => CodeOf(v, l)' = CodeOf(v, l)
        BY <1>0, <3>0, <3>2 DEF CodeOf
      <3>. QED
        BY <1>0, <3>2, <3>3, CodeSetTries
    <2>. QED
      BY <2>1, <2>2
  <1>2. CASE ResendSetCode(r)
    <2>1. CASE UNCHANGED <<sent, code>>
      BY <1>2, <2>1, NothingTried DEF ResendSetCode
    <2>2. CASE ~UNCHANGED <<sent, code>>
      <3>0. req[r].op = "code" /\ code \in [Users -> Code]
        BY <1>0, <1>2 DEF ResendSetCode, ProvenInv, Typed
      <3>1. PICK u \in Users, e \in Emails : u = req[r].u /\ e = req[r].email
        BY <1>0, <3>0, RequestUser, RequestFields
      <3>2. /\ MakeOtpCode(e) /\ code' = [code EXCEPT ![u] = OtpEntry(Len(sent'))]
            /\ UNCHANGED <<otp, rate, tries>>
        BY <1>2, <2>2, <3>1 DEF ResendSetCode
      <3>3. /\ CodeOf(u, "change_email")' = OtpEntry(Len(sent'))
            /\ \A v \in Users, l \in Kinds : <<v, l>> # <<u, "change_email">>
                 => CodeOf(v, l)' = CodeOf(v, l)
        BY <1>0, <3>0, <3>2 DEF CodeOf
      <3>. QED
        BY <1>0, <3>2, <3>3, CodeSetTries
    <2>. QED
      BY <2>1, <2>2
  <1>3. CASE VerifyEmailSave(r)
    BY <1>3, NothingTried DEF VerifyEmailSave, cache
  <1>4. CASE ChangeEmailSetPending(r)
    BY <1>4, NothingTried DEF ChangeEmailSetPending
  <1>5. CASE ResendRead(r)
    BY <1>5, NothingTried DEF ResendRead, cache, ghosts
  <1>6. CASE ChangeEmailSave(r)
    BY <1>6, NothingTried DEF ChangeEmailSave, cache
  <1>7. CASE ChangeEmailMark(r)
    BY <1>7, NothingTried DEF ChangeEmailMark, ghosts
  <1>8. ASSUME NEW u \in Users, NEW op, NEW k \in Keys, TooMany(r, op, u, k)
        PROVE  TriesWithin' /\ TriesBounded'
    BY <1>8, StartTries DEF TooMany, cache, ghosts
  <1>9. ASSUME NEW u \in Users, VerifyEmailSendCode(r, u)
        PROVE  TriesWithin' /\ TriesBounded'
    BY <1>0, <1>9, StartTries DEF VerifyEmailSendCode, cache
  <1>10. ASSUME NEW u \in Users, NEW right \in BOOLEAN, VerifyEmailComplete(r, u, right)
         PROVE  TriesWithin' /\ TriesBounded'
    BY <1>0, <1>c, <1>10, StartTries DEF VerifyEmailComplete, cache
  <1>11. ASSUME NEW u \in Users, ChangeEmailResendCode(r, u)
         PROVE  TriesWithin' /\ TriesBounded'
    BY <1>0, <1>11, StartTries DEF ChangeEmailResendCode, cache
  <1>12. ASSUME NEW u \in Users, NEW e \in Emails, ChangeEmailStart(r, u, e)
         PROVE  TriesWithin' /\ TriesBounded'
    BY <1>0, <1>12, StartTries DEF ChangeEmailStart, cache
  <1>13. ASSUME NEW u \in Users, NEW right \in BOOLEAN, ChangeEmailComplete(r, u, right)
         PROVE  TriesWithin' /\ TriesBounded'
    BY <1>0, <1>c, <1>13, StartTries DEF ChangeEmailComplete, cache
  <1>14. CASE Verify(r)
    BY <1>0, <1>1, <1>3, <1>8, <1>9, <1>10, <1>14, Zenon DEF Verify
  <1>15. CASE Change(r)
    BY <1>0, <1>2, <1>4, <1>5, <1>6, <1>7, <1>8, <1>11, <1>12, <1>13, <1>15, Zenon DEF Change
  <1>. QED
    BY <1>14, <1>15

LEMMA NextTries ==
    ASSUME TriesInv, [Next]_vars
    PROVE  TriesWithin' /\ TriesBounded'
  <1>1. ASSUME NEW u \in Users, NEW e \in Emails, SignUp(u, e) PROVE TriesWithin' /\ TriesBounded'
    BY <1>1, NothingTried DEF SignUp, Create, cache, ghosts
  <1>2. ASSUME NEW u \in Users, NEW n \in Names, CreateSuperuser(u, n)
        PROVE  TriesWithin' /\ TriesBounded'
    BY <1>2, NothingTried DEF CreateSuperuser, Create, cache, ghosts
  <1>3. ASSUME NEW u \in Users, TokenExpires(u) PROVE TriesWithin' /\ TriesBounded'
    BY <1>3, NothingTried DEF TokenExpires, cache, ghosts
  <1>4. ASSUME NEW login \in Emails \cup Names, SignIn(login)
        PROVE  TriesWithin' /\ TriesBounded'
    BY <1>4, NothingTried DEF SignIn, cache, ghosts
  <1>5. CASE UNCHANGED vars
    BY <1>5, NothingTried DEF vars
  <1>6. CASE Restart
    BY <1>6, NothingTried DEF Restart, cache
  <1>. QED
    BY <1>1, <1>2, <1>3, <1>4, <1>5, <1>6, TickTries, RequestTries DEF Next

\* No code stands against more than 2 * Limit - 1 answers, whatever the lives of
\* codes and windows, as long as a code lives shorter than a limiter's period.
THEOREM TriesAreBounded == Spec => []TriesBounded
  <1>1. Init => TriesInv
    <2>1. ASSUME Init PROVE TriesWithin /\ TriesBounded
      <3>1. \A u \in Users, k \in Kinds : ~Alive(CodeOf(u, k))
        BY <2>1 DEF Init, CodeOf, Alive, Gone
      <3>2. TriesWithin
        BY <2>1, <3>1 DEF Init, TriesWithin
      <3>3. TriesBounded
        BY <2>1, AccountsAssumption DEF Init, TriesBounded
      <3>. QED
        BY <3>2, <3>3
    <2>. QED
      BY <2>1, InitProven DEF TriesInv
  <1>2. TriesInv /\ [Next]_vars => TriesInv'
    BY NextProven, NextTries DEF TriesInv
  <1>3. TriesInv => TriesBounded
    BY DEF TriesInv
  <1>. QED
    BY <1>1, <1>2, <1>3, PTL DEF Spec
-----------------------------------------------------------------------------
(* Refresh tokens: the other half of signing in. Proofs about TokenRotation *)
(* for any number of families, tokens and requests.                         *)

\* Every id in use was drawn, and an id belongs to one family.
IdsAreDrawn ==
    /\ \A f \in Families : known[f] \subseteq drawn
    /\ \A f \in Families : store[f] # NoToken => store[f] \in drawn
    /\ presented \subseteq drawn /\ twice \subseteq presented
    /\ rotated \subseteq drawn /\ rotatedTwice \subseteq rotated
    /\ \A f, g \in Families : f # g =>
         /\ known[f] \cap known[g] = {}
         /\ store[f] # NoToken => store[f] # store[g]
         /\ store[f] \notin known[g]

\* A request under way is about a token its client was given.
RequestsArePresented ==
    \A r \in Rotations : underway[r] # NoToken =>
        underway[r].token \in known[underway[r].family] \cap presented

\* In a family without a token presented twice, the token of the only request
\* under way is the current one.
HonestRequests ==
    \A f \in Families : known[f] \cap twice = {} =>
        /\ \A r \in UnderWay(f) : underway[r].found = "current" /\ underway[r].token = store[f]
        /\ \A r, s \in UnderWay(f) : r = s

\* The inductive invariant of every environment.
TokenInv == /\ TokenTypeOK
            /\ IdsAreDrawn
            /\ RequestsArePresented
            /\ HonestRequests
            /\ RevokedOnlyOnReuse

\* In a family of which no two requests overlapped: the token of a request that
\* was found to be current still is, and the current token was never rotated.
OneRotation ==
    /\ \A r, s \in Rotations :
         underway[r] # NoToken /\ underway[s] # NoToken /\ underway[r].family = underway[s].family
           /\ underway[r].family \notin overlapped => r = s
    /\ \A r \in Rotations :
         underway[r] # NoToken /\ underway[r].found = "current" /\ underway[r].family \notin overlapped
           => store[underway[r].family] = underway[r].token
    /\ \A f \in Families \ overlapped : store[f] \notin rotated
    /\ \A f \in revoked : known[f] # {}

\* The inductive invariant about them.
RotationInv ==
    /\ TokenInv
    /\ OneRotation
    /\ RotatedTwiceOnlyIfOverlapped
    /\ RevivedOnlyIfOverlapped

-----------------------------------------------------------------------------

\* A request under way has a family, a token and an outcome of the comparison.
LEMMA RotationFacts ==
  ASSUME TokenTypeOK, NEW r \in Rotations, underway[r] # NoToken
  PROVE  /\ underway[r].family \in Families
         /\ underway[r].token \in TokenIds
         /\ underway[r].found \in {"current", "reused"}
  BY DEF TokenTypeOK, Rotation

LEMMA InitTokenInv == TokenInit => TokenInv
  BY DEF TokenInit, TokenInv, TokenTypeOK, IdsAreDrawn, RequestsArePresented, HonestRequests,
         RevokedOnlyOnReuse, UnderWay

LEMMA CreateTokenInv ==
  ASSUME TokenInv, NEW f \in Families, NEW t \in TokenIds, CreateFamily(f, t)
  PROVE  TokenInv'
  <1> USE DEF history
  <1>1. TokenTypeOK'
    BY DEF TokenInv, TokenTypeOK, CreateFamily
  <1>2. IdsAreDrawn'
    <2>1. \A g \in Families : /\ store'[g] = IF g = f THEN t ELSE store[g]
                              /\ known'[g] = IF g = f THEN {t} ELSE known[g]
      BY DEF TokenInv, TokenTypeOK, CreateFamily
    <2>2. \A g \in Families : t # store[g] /\ t \notin known[g]
      BY TokenAssumption DEF TokenInv, IdsAreDrawn, CreateFamily, Fresh
    <2>3. QED
      BY <2>1, <2>2 DEF TokenInv, CreateFamily, IdsAreDrawn
  <1>3. RequestsArePresented'
    BY RotationFacts DEF TokenInv, TokenTypeOK, CreateFamily, RequestsArePresented
  <1>4. HonestRequests'
    <2>1. UnderWay(f) = {}
      BY RotationFacts DEF TokenInv, CreateFamily, RequestsArePresented, UnderWay
    <2>2. QED
      BY <2>1 DEF TokenInv, TokenTypeOK, CreateFamily, HonestRequests, UnderWay
  <1>5. RevokedOnlyOnReuse'
    BY TokenAssumption DEF TokenInv, TokenTypeOK, CreateFamily, RevokedOnlyOnReuse, IdsAreDrawn, Fresh
  <1>6. QED
    BY <1>1, <1>2, <1>3, <1>4, <1>5 DEF TokenInv

LEMMA ExpireTokenInv ==
  ASSUME TokenInv, NEW f \in Families, Expire(f)
  PROVE  TokenInv'
  BY DEF TokenInv, Expire, history, TokenTypeOK, IdsAreDrawn, RequestsArePresented,
         HonestRequests, UnderWay, RevokedOnlyOnReuse

LEMMA RotateGetTokenInv ==
  ASSUME TokenInv, NEW r \in Rotations, NEW f \in Families, NEW t \in TokenIds,
         RotateGet(r, f, t)
  PROVE  TokenInv'
  <1> DEFINE found == IF store[f] = t THEN "current" ELSE "reused"
             new == [family |-> f, token |-> t, found |-> found]
  <1>0. /\ new \in Rotation /\ new.family = f /\ new.token = t /\ new.found = found
        /\ underway' = [underway EXCEPT ![r] = new]
        /\ underway[r] = NoToken /\ t \in known[f] /\ store[f] # NoToken
        /\ presented' = presented \cup {t}
        /\ twice' = twice \cup (presented \cap {t})
        /\ overlapped' \subseteq Families
        /\ UNCHANGED <<store, known, drawn, expired, rotated, rotatedTwice, revoked>>
    BY DEF RotateGet, Rotation, TokenInv, TokenTypeOK, UnderWay
  <1> HIDE DEF new, found
  <1>1. TokenTypeOK'
    BY <1>0 DEF TokenInv, TokenTypeOK
  <1>2. IdsAreDrawn'
    BY <1>0 DEF TokenInv, TokenTypeOK, IdsAreDrawn
  <1>3. RequestsArePresented'
    BY <1>0 DEF TokenInv, TokenTypeOK, RequestsArePresented
  <1>4. HonestRequests'
    <2> SUFFICES ASSUME NEW g \in Families, known[g] \cap twice' = {}
                 PROVE  /\ \A q \in UnderWay(g)' :
                             underway'[q].found = "current" /\ underway'[q].token = store[g]
                        /\ \A p, q \in UnderWay(g)' : p = q
      BY <1>0 DEF HonestRequests
    <2>1. known[g] \cap twice = {}
      BY <1>0
    <2>2. CASE g # f
      <3>1. UnderWay(g)' = UnderWay(g) /\ r \notin UnderWay(g)
        BY <1>0, <2>2 DEF TokenInv, TokenTypeOK, UnderWay
      <3>2. QED
        BY <1>0, <2>1, <3>1 DEF TokenInv, TokenTypeOK, HonestRequests, UnderWay
    <2>3. CASE g = f
      <3>1. t \notin presented
        BY <1>0, <2>3
      <3>2. store[f] = t
        BY <1>0, <2>1, <2>3, <3>1 DEF TokenInv, RevokedOnlyOnReuse
      <3>3. UnderWay(f) = {}
        <4> SUFFICES ASSUME NEW q \in UnderWay(f) PROVE FALSE
          OBVIOUS
        <4>1. q \in Rotations /\ underway[q] # NoToken /\ underway[q].family = f
          BY DEF UnderWay
        <4>2. underway[q].token = store[f]
          BY <2>1, <2>3 DEF TokenInv, HonestRequests
        <4>3. underway[q].token \in presented
          BY <4>1 DEF TokenInv, RequestsArePresented
        <4>4. QED
          BY <3>1, <3>2, <4>2, <4>3
      <3>4. UnderWay(f)' = {r}
        BY TokenAssumption, <1>0, <3>3 DEF TokenInv, TokenTypeOK, UnderWay, new
      <3>5. QED
        BY <1>0, <2>3, <3>2, <3>4 DEF TokenInv, TokenTypeOK, found
    <2>4. QED
      BY <2>2, <2>3
  <1>5. RevokedOnlyOnReuse'
    BY <1>0 DEF TokenInv, TokenTypeOK, RevokedOnlyOnReuse
  <1>6. QED
    BY <1>1, <1>2, <1>3, <1>4, <1>5 DEF TokenInv

LEMMA RotateDeleteTokenInv ==
  ASSUME TokenInv, NEW r \in Rotations, RotateDelete(r)
  PROVE  TokenInv'
  <1> DEFINE f == underway[r].family
  <1>0. /\ underway[r] # NoToken /\ f \in Families
        /\ underway[r].found = "reused"
        /\ r \in UnderWay(f)
    BY RotationFacts DEF TokenInv, RotateDelete, UnderWay
  <1>1. TokenTypeOK'
    BY <1>0 DEF TokenInv, TokenTypeOK, RotateDelete
  <1>2. IdsAreDrawn'
    <2>1. /\ \A g \in Families : store'[g] = IF g = f THEN NoToken ELSE store[g]
          /\ \A g \in Families : NoToken \notin known[g]
      BY TokenAssumption, <1>0 DEF TokenInv, TokenTypeOK, RotateDelete
    <2>2. QED
      BY <2>1 DEF TokenInv, IdsAreDrawn, RotateDelete
  <1>3. RequestsArePresented'
    BY <1>0 DEF TokenInv, TokenTypeOK, RequestsArePresented, RotateDelete
  <1>4. known[f] \cap twice # {}
    BY <1>0 DEF TokenInv, HonestRequests
  <1>5. HonestRequests'
    BY <1>0, <1>4 DEF TokenInv, TokenTypeOK, HonestRequests, RotateDelete, UnderWay
  <1>6. RevokedOnlyOnReuse'
    BY <1>0, <1>4 DEF TokenInv, TokenTypeOK, RevokedOnlyOnReuse, RotateDelete
  <1>7. QED
    BY <1>1, <1>2, <1>3, <1>5, <1>6 DEF TokenInv

LEMMA RotateSetTokenInv ==
  ASSUME TokenInv, NEW r \in Rotations, NEW t \in TokenIds, RotateSet(r, t)
  PROVE  TokenInv'
  <1>f. PICK f \in Families : f = underway[r].family
    BY RotationFacts DEF TokenInv, RotateSet
  <1>0. /\ underway[r] # NoToken /\ f \in Families /\ r \in UnderWay(f)
        /\ underway[r].token \in known[f] /\ underway[r].token \in presented
        /\ underway[r].token \in TokenIds
        /\ t \notin drawn
        /\ store' = [store EXCEPT ![f] = t]
        /\ known' = [known EXCEPT ![f] = @ \cup {t}] \/ known' = known
        /\ drawn' = drawn \cup {t}
        /\ rotated' = rotated \cup {underway[r].token}
        /\ rotatedTwice' = rotatedTwice \cup (rotated \cap {underway[r].token})
        /\ underway' = [underway EXCEPT ![r] = NoToken]
        /\ UNCHANGED <<expired, presented, twice, revoked, overlapped>>
    BY <1>f, RotationFacts DEF TokenInv, RotateSet, UnderWay, RequestsArePresented, Fresh
  <1>1. TokenTypeOK'
    BY <1>0 DEF TokenInv, TokenTypeOK
  <1>2. IdsAreDrawn'
    <2>1. \A g \in Families : /\ store'[g] = IF g = f THEN t ELSE store[g]
                              /\ known[g] \subseteq known'[g]
                              /\ known'[g] \subseteq known[g] \cup {t}
                              /\ g # f => known'[g] = known[g]
      BY <1>0 DEF TokenInv, TokenTypeOK
    <2>2. \A g \in Families : t # store[g] /\ t \notin known[g]
      BY TokenAssumption, <1>0 DEF TokenInv, IdsAreDrawn
    <2>3. underway[r].token \in drawn /\ t # NoToken
      BY TokenAssumption, <1>0 DEF TokenInv, IdsAreDrawn
    <2>4. /\ \A g \in Families : known'[g] \subseteq drawn'
          /\ \A g \in Families : store'[g] # NoToken => store'[g] \in drawn'
          /\ presented' \subseteq drawn' /\ twice' \subseteq presented'
          /\ rotated' \subseteq drawn' /\ rotatedTwice' \subseteq rotated'
      BY <1>0, <2>1, <2>3 DEF TokenInv, IdsAreDrawn
    <2>5. \A g, h \in Families : g # h =>
            /\ known'[g] \cap known'[h] = {}
            /\ store'[g] # NoToken => store'[g] # store'[h]
            /\ store'[g] \notin known'[h]
      BY <2>1, <2>2 DEF TokenInv, IdsAreDrawn
    <2>6. QED
      BY <2>4, <2>5 DEF IdsAreDrawn
  <1>3. RequestsArePresented'
    BY <1>0, RotationFacts DEF TokenInv, TokenTypeOK, RequestsArePresented
  <1>4. \A g \in Families \ {f} :
          /\ known'[g] = known[g] /\ store'[g] = store[g]
          /\ UnderWay(g)' = UnderWay(g) \ {r}
          /\ \A q \in UnderWay(g)' : underway'[q] = underway[q]
    BY <1>f, <1>0 DEF TokenInv, TokenTypeOK, UnderWay
  <1>5. UnderWay(f)' = UnderWay(f) \ {r}
    BY <1>f, <1>0 DEF TokenInv, TokenTypeOK, UnderWay
  <1>6. known[f] \subseteq known'[f] /\ known'[f] \subseteq known[f] \cup {t}
    BY <1>0 DEF TokenInv, TokenTypeOK
  <1>7. HonestRequests'
    BY <1>0, <1>4, <1>5, <1>6 DEF TokenInv, HonestRequests
  <1>8. RevokedOnlyOnReuse'
    <2> SUFFICES ASSUME NEW g \in Families, known'[g] \cap twice = {}
                 PROVE  /\ g \notin revoked
                        /\ known'[g] # {} => store'[g] # NoToken
                        /\ \A x \in known'[g] \ presented : store'[g] = x
      BY <1>0 DEF RevokedOnlyOnReuse
    <2>1. CASE g # f
      BY <1>4, <2>1 DEF TokenInv, RevokedOnlyOnReuse
    <2>2. CASE g = f
      <3>1. known[f] \cap twice = {}
        BY <1>6, <2>2
      <3>2. known[f] \subseteq presented /\ f \notin revoked
        BY <1>0, <3>1 DEF TokenInv, HonestRequests, RevokedOnlyOnReuse
      <3>3. store'[f] = t /\ t # NoToken
        BY TokenAssumption, <1>0 DEF TokenInv, TokenTypeOK
      <3>4. QED
        BY <1>6, <2>2, <3>2, <3>3
    <2>3. QED
      BY <2>1, <2>2
  <1>9. QED
    BY <1>1, <1>2, <1>3, <1>7, <1>8 DEF TokenInv

\* The invariant is kept by every step.
LEMMA NextTokenInv == TokenInv /\ [TokenNext]_tokenVars => TokenInv'
  <1> SUFFICES ASSUME TokenInv, [TokenNext]_tokenVars PROVE TokenInv'
    OBVIOUS
  <1>1. CASE UNCHANGED tokenVars
    BY <1>1 DEF tokenVars, TokenInv, TokenTypeOK, IdsAreDrawn, RequestsArePresented,
                HonestRequests, UnderWay, RevokedOnlyOnReuse
  <1>2. CASE TokenNext
    BY <1>2, CreateTokenInv, ExpireTokenInv, RotateGetTokenInv, RotateDeleteTokenInv, RotateSetTokenInv
    DEF TokenNext
  <1>3. QED
    BY <1>1, <1>2

LEMMA TokenInvariance == TokenSpec => []TokenInv
  BY InitTokenInv, NextTokenInv, PTL DEF TokenSpec

\* The state of the cache and of the requests stays well typed.
THEOREM TokensTypeCorrect == TokenSpec => []TokenTypeOK
  <1>1. TokenInv => TokenTypeOK
    BY DEF TokenInv
  <1>2. QED
    BY TokenInvariance, <1>1, PTL

\* However requests overlap and replies are lost, only a token presented twice
\* makes TokenService.rotate revoke its family.
THEOREM HonestStayLoggedIn == TokenSpec => []RevokedOnlyOnReuse
  <1>1. TokenInv => RevokedOnlyOnReuse
    BY DEF TokenInv
  <1>2. QED
    BY TokenInvariance, <1>1, PTL

-----------------------------------------------------------------------------

\* The stronger invariant is kept as well.
LEMMA NextRotationInv ==
  ASSUME RotationInv, [TokenNext]_tokenVars
  PROVE  RotationInv'
  <1>0. TokenInv' /\ TokenTypeOK
    BY NextTokenInv DEF RotationInv, TokenInv
  <1> DEFINE Rest == OneRotation /\ RotatedTwiceOnlyIfOverlapped /\ RevivedOnlyIfOverlapped
  <1> USE DEF RotatedTwiceOnlyIfOverlapped, RevivedOnlyIfOverlapped
  <1>1. CASE UNCHANGED tokenVars
    BY <1>0, <1>1 DEF tokenVars, RotationInv, OneRotation
  <1>2. ASSUME NEW f \in Families, NEW t \in TokenIds, CreateFamily(f, t)
        PROVE  Rest'
    <2>1. \A r \in Rotations : underway[r] # NoToken => underway[r].family # f
      BY <1>2 DEF RotationInv, TokenInv, RequestsArePresented, CreateFamily
    <2>2. t \notin rotated /\ t \notin rotatedTwice
      BY <1>2 DEF RotationInv, TokenInv, IdsAreDrawn, CreateFamily, Fresh
    <2>3. f \notin revoked
      BY <1>2 DEF RotationInv, OneRotation, CreateFamily
    <2>4. QED
      BY <1>0, <1>2, <2>1, <2>2, <2>3, RotationFacts
      DEF RotationInv, TokenTypeOK, OneRotation, CreateFamily, history
  <1>3. ASSUME NEW f \in Families, Expire(f)
        PROVE  Rest'
    BY <1>3 DEF RotationInv, OneRotation, Expire, history
  <1>4. ASSUME NEW r \in Rotations, NEW f \in Families, NEW t \in TokenIds,
               RotateGet(r, f, t)
        PROVE  Rest'
    <2>1. f \notin overlapped' => UnderWay(f) = {}
      BY <1>4 DEF RotateGet, UnderWay
    <2>2. overlapped \subseteq overlapped'
      BY <1>4 DEF RotateGet
    <2>3. QED
      BY <1>0, <1>4, <2>1, <2>2
      DEF RotationInv, TokenTypeOK, OneRotation, RotateGet, UnderWay
  <1>5. ASSUME NEW r \in Rotations, RotateDelete(r)
        PROVE  Rest'
    <2>1. underway[r] # NoToken /\ underway[r].family \in Families /\ known[underway[r].family] # {}
      BY <1>0, <1>5, RotationFacts DEF RotationInv, TokenInv, RequestsArePresented, RotateDelete
    <2>2. NoToken \notin rotated
      BY TokenAssumption, <1>0 DEF RotationInv, TokenInv, TokenTypeOK
    <2>3. QED
      BY <1>0, <1>5, <2>1, <2>2, RotationFacts
      DEF RotationInv, TokenTypeOK, OneRotation, RotateDelete
  <1>6. ASSUME NEW r \in Rotations, NEW t \in TokenIds, RotateSet(r, t)
        PROVE  Rest'
    <2> DEFINE f == underway[r].family
               used == underway[r].token
    <2>1. /\ underway[r] # NoToken /\ underway[r].found = "current" /\ f \in Families
          /\ used \in TokenIds /\ used \in known[f] /\ used \in drawn
      BY <1>0, <1>6, RotationFacts
      DEF RotationInv, RotateSet, TokenInv, RequestsArePresented, IdsAreDrawn
    <2>2. f \notin overlapped =>
            store[f] = used /\ used \notin rotated /\ f \notin revoked
      BY TokenAssumption, <2>1 DEF RotationInv, TokenInv, OneRotation
    <2>3. /\ t \notin drawn /\ t \notin rotated /\ t \notin rotatedTwice
          /\ store' = [store EXCEPT ![f] = t]
          /\ \A g \in Families : /\ known[g] \subseteq known'[g]
                                 /\ known'[g] \subseteq known[g] \cup {t}
          /\ rotated' = rotated \cup {used}
          /\ rotatedTwice' = rotatedTwice \cup (rotated \cap {used})
          /\ underway' = [underway EXCEPT ![r] = NoToken]
          /\ UNCHANGED <<revoked, overlapped>>
      BY <1>0, <1>6, <2>1 DEF RotateSet, Fresh, RotationInv, TokenInv, IdsAreDrawn, TokenTypeOK
    <2>4. \A g \in Families : g # f => store[g] # used /\ used \notin known[g]
      BY <2>1 DEF RotationInv, TokenInv, IdsAreDrawn
    <2>5. OneRotation'
      <3> HIDE DEF used
      <3>1. \A q \in Rotations \ {r} : underway'[q] = underway[q]
        BY <1>0, <2>3 DEF TokenTypeOK
      <3>2. \A q \in Rotations : underway'[q] # NoToken => q # r /\ underway'[q] = underway[q]
        BY <1>0, <2>3, <3>1 DEF TokenTypeOK
      <3>3. \A q \in Rotations : underway'[q] # NoToken /\ underway[q].family = f => f \in overlapped
        BY <2>1, <3>2 DEF RotationInv, OneRotation
      <3>4. \A g \in Families : store'[g] = IF g = f THEN t ELSE store[g]
        BY <1>0, <2>1, <2>3 DEF TokenTypeOK
      <3> HIDE DEF f
      <3>5. \A p, q \in Rotations :
              underway'[p] # NoToken /\ underway'[q] # NoToken /\ underway'[p].family = underway'[q].family
                /\ underway'[p].family \notin overlapped' => p = q
        BY <2>3, <3>2 DEF RotationInv, OneRotation
      <3>6. \A q \in Rotations :
              underway'[q] # NoToken /\ underway'[q].found = "current" /\ underway'[q].family \notin overlapped'
                => store'[underway'[q].family] = underway'[q].token
        BY <1>0, <2>3, <3>2, <3>3, <3>4, RotationFacts DEF RotationInv, OneRotation
      <3>7. \A g \in Families \ overlapped' : store'[g] \notin rotated'
        BY <2>1, <2>3, <2>4, <3>4 DEF RotationInv, OneRotation
      <3>8. \A g \in revoked' : known'[g] # {}
        BY <1>0, <2>3 DEF RotationInv, OneRotation, TokenTypeOK
      <3>9. QED
        BY <3>5, <3>6, <3>7, <3>8 DEF OneRotation
    <2>6. RotatedTwiceOnlyIfOverlapped'
      BY <2>1, <2>2, <2>3, <2>4 DEF RotationInv
    <2>7. RevivedOnlyIfOverlapped'
      BY <1>0, <2>1, <2>2, <2>3 DEF RotationInv, TokenTypeOK
    <2>8. QED
      BY <2>5, <2>6, <2>7
  <1>7. QED
    BY <1>0, <1>1, <1>2, <1>3, <1>4, <1>5, <1>6 DEF TokenNext, RotationInv

LEMMA InitRotationInv == TokenInit => RotationInv
  <1> SUFFICES ASSUME TokenInit PROVE RotationInv
    OBVIOUS
  <1>1. TokenInv
    BY InitTokenInv
  <1>2. OneRotation /\ RotatedTwiceOnlyIfOverlapped /\ RevivedOnlyIfOverlapped
    BY DEF TokenInit, OneRotation, RotatedTwiceOnlyIfOverlapped, RevivedOnlyIfOverlapped
  <1>3. QED
    BY <1>1, <1>2 DEF RotationInv

LEMMA RotationInvariance == TokenSpec => []RotationInv
  <1>1. RotationInv /\ [TokenNext]_tokenVars => RotationInv'
    BY NextRotationInv
  <1>2. QED
    BY InitRotationInv, <1>1, PTL DEF TokenSpec

\* TokenService.rotate accepts a refresh token twice only in a family of which
\* two requests overlapped between their cache commands.
THEOREM TokensRotateOnce == TokenSpec => []RotatedTwiceOnlyIfOverlapped
  <1>1. RotationInv => RotatedTwiceOnlyIfOverlapped
    BY DEF RotationInv
  <1>2. QED
    BY RotationInvariance, <1>1, PTL

\* A family whose reused token was refused gets a current token again only if
\* two of its requests overlapped between their cache commands.
THEOREM RevocationIsFinal == TokenSpec => []RevivedOnlyIfOverlapped
  <1>1. RotationInv => RevivedOnlyIfOverlapped
    BY DEF RotationInv
  <1>2. QED
    BY RotationInvariance, <1>1, PTL
=============================================================================
