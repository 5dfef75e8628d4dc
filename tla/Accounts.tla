------------------------------ MODULE Accounts ------------------------------
(***************************************************************************)
(* Users and their addresses: sign-up and sign-in, the confirmation of an  *)
(* address and the change of an address, with the codes and limits that    *)
(* are kept in the cache.                                                  *)
(*                                                                         *)
(* A cache entry lives for a number of ticks; 0 is an entry that is gone.  *)
(* Each command to the cache or the database is a step of its own, but for *)
(* the commands at the start of a request, which come right one after the  *)
(* other: the limiter and the first reads.                                 *)
(***************************************************************************)
EXTENDS Naturals, Sequences, FiniteSets

CONSTANTS
    Users,         \* ids of users
    Emails,        \* addresses, in lower case
    Names,         \* usernames of superusers
    Changers,      \* the users who confirm or change their address
    Requests,      \* requests that may be under way
    None,
    OpSets,        \* what there is of: operations, other users, requests that overlap
    SignUpEnabled, \* config.features.sign_up_enabled
    VerificationRequired, \* config.features.verification_required
    OtpTtl,        \* expire="2m" of a code
    PendingTtl,    \* expire="10m" of the address of a change
    Period,        \* period="30m" and ttl="30m" of the limiters
    CompletedTtl,  \* expire="6h" of the mark of a change
    Limit,         \* limit=5 of change_email and verify_email
    SendLimit,     \* limit=6 of the two send_code
    MaxCodes,      \* bound on the codes that are made
    MaxRequests,   \* bound on the requests that are made
    MaxCrashes     \* bound on restarts

ASSUME AccountsAssumption ==
    /\ {OtpTtl, PendingTtl, Period, CompletedTtl, Limit, SendLimit} \subseteq Nat \ {0}
    /\ OtpTtl < PendingTtl /\ PendingTtl < Period /\ Period < CompletedTtl
    /\ Changers \subseteq Users /\ {SignUpEnabled, VerificationRequired} \subseteq BOOLEAN
    /\ Emails \cap Names = {} /\ None \notin Emails \cup Names
    /\ {MaxCodes, MaxCrashes} \subseteq Nat /\ MaxRequests \in Nat \ {0}

VARIABLES
    user,       \* user[u]: the row of models.User
    session,    \* users with an access token that is valid
    pending,    \* pending[u]: email_update:{u}:email
    code,       \* code[u]: email_update:{u}:code
    completed,  \* completed[u]: change_email:{u}:completed
    otp,        \* otp[u]: otp:verify_email:{u}
    rate,       \* rate[u][k]: the limiter with key k
    sent,       \* sent[n]: the address code number n was made for
    req,        \* req[r]: what request r has read
    made,       \* requests made so far
    crashes,
    ops,        \* the operations users make
    \* What the properties speak about.
    proven,     \* proven[u]: addresses u has given a code from
    mixed,      \* users with a code in the cache that belongs to another address
    disturbed,  \* users of whom two requests overlapped or one was cut off
    since,      \* since[u] > 0: the address changed less than CompletedTtl ago
    tries       \* tries[n]: how often an answer was compared with code n

cache == <<pending, code, completed, otp>>
ghosts == <<proven, mixed, disturbed, since, tries>>
vars == <<user, session, pending, code, completed, otp, rate, sent, req, made,
          crashes, ops, proven, mixed, disturbed, since, tries>>

Row == [username : Emails \cup Names, email : Emails \cup {None},
        email_verified : BOOLEAN, superuser : BOOLEAN]

ASSUME RowAssumption == None \notin Row

Keys == {"change_email", "change_email_send", "verify_email", "verify_email_send"}
Gone == [val |-> None, ttl |-> 0]
Idle == [op |-> "idle"]
Alive(entry) == entry.ttl > 0
LimitOf(k) == IF k \in {"change_email", "verify_email"} THEN Limit ELSE SendLimit

Init ==
    /\ user = [u \in Users |-> None]
    /\ session = {}
    /\ pending = [u \in Users |-> Gone] /\ code = pending /\ otp = pending
    /\ completed = [u \in Users |-> 0]
    /\ rate = [u \in Users |-> [k \in Keys |-> [n |-> 0, ttl |-> 0]]]
    /\ sent = <<>>
    /\ req = [r \in Requests |-> Idle]
    /\ made = 0 /\ crashes = 0
    /\ ops \in OpSets
    /\ proven = [u \in Users |-> {}]
    /\ mixed = {} /\ disturbed = {}
    /\ since = [u \in Users |-> 0]
    /\ tries = [n \in 1..MaxCodes |-> 0]

-----------------------------------------------------------------------------
(* Rows of users                                                           *)

Exists(u) == user[u] # None
Unique(u, row) ==
    \A v \in Users \ {u} : Exists(v) =>
        /\ user[v].username # row.username
        /\ user[v].email # row.email \/ row.email = None
ExistsWithEmail(e) == \E u \in Users : Exists(u) /\ user[u].email = e

\* UserService.create: the row of a new user, refused by the indexes on username
\* and email.  The account, the namespace and its folders are of one transaction.
Create(u, username, email, superuser) ==
    LET row == [username |-> username, email |-> email,
                email_verified |-> FALSE, superuser |-> superuser]
    IN  /\ ~Exists(u) /\ Unique(u, row)
        /\ u \in Changers \/ "others" \in ops
        /\ user' = [user EXCEPT ![u] = row]
        /\ UNCHANGED <<cache, rate, sent, req, made, crashes, ghosts>>

\* Who signs up has the address for a username.
SignUp(u, e) ==
    /\ SignUpEnabled
    /\ Create(u, e, e, FALSE)
    /\ session' = session \cup {u}

CreateSuperuser(u, n) == Create(u, n, None, TRUE) /\ UNCHANGED session

\* UserService.signin: a login that is an address is looked up among the
\* addresses, never among the usernames.
FoundBy(login) ==
    {u \in Users : Exists(u) /\ login =
        IF login \in Emails THEN user[u].email ELSE user[u].username}

SignIn(login) ==
    \E u \in FoundBy(login) :
        /\ "sign_in" \in ops
        /\ session' = session \cup {u}
        /\ UNCHANGED <<user, cache, rate, sent, req, made, crashes, ghosts>>

\* An access token expires.
TokenExpires(u) ==
    /\ "sign_in" \in ops
    /\ u \in session /\ session' = session \ {u}
    /\ UNCHANGED <<user, cache, rate, sent, req, made, crashes, ghosts>>

IsVerified(u) == user[u].superuser \/ user[u].email_verified

\* Who may upload.
VerifiedCurrentUser(u) == Exists(u) /\ (VerificationRequired => IsVerified(u))

-----------------------------------------------------------------------------
(* Requests, limiters and codes                                            *)

\* The bound on requests is lower where they may overlap.
Budget == IF "overlap" \in ops THEN MaxRequests - 1 ELSE MaxRequests

\* A request of a user with a token comes in.
CurrentUser(r, op, u) ==
    /\ op \in ops
    /\ req[r] = Idle /\ u \in session \cap Changers
    /\ "overlap" \in ops \/ \A q \in Requests : req[q] = Idle
    /\ made < Budget /\ made' = made + 1

Busy(u) == \E r \in Requests : req[r] # Idle /\ req[r].u = u

\* A request of u goes on with what it has read.
GoesOn(r, next) ==
    /\ req' = [req EXCEPT ![r] = next]
    /\ disturbed' = IF Busy(next.u) THEN disturbed \cup {next.u} ELSE disturbed

Ends == UNCHANGED <<req, disturbed>>

\* cache.rate_limit: a window is opened by the first call and lasts a period; the
\* first call too many prolongs it.
Hit(u, k) ==
    LET w == rate[u][k]
    IN  rate' = [rate EXCEPT ![u][k] =
          IF w.ttl = 0 THEN [n |-> 1, ttl |-> Period]
          ELSE IF w.n = LimitOf(k) THEN [n |-> w.n + 1, ttl |-> Period]
          ELSE IF w.n < LimitOf(k) THEN [n |-> w.n + 1, ttl |-> w.ttl] ELSE w]

\* A mutant of Allowed: one call more in a window.
AllowedOneMore(u, k) == rate[u][k].ttl = 0 \/ rate[u][k].n <= LimitOf(k)

Allowed(u, k) == rate[u][k].ttl = 0 \/ rate[u][k].n < LimitOf(k)

\* The view is called once too often in the period.
TooMany(r, op, u, k) ==
    /\ CurrentUser(r, op, u) /\ Hit(u, k) /\ ~Allowed(u, k)
    /\ UNCHANGED <<user, session, cache, sent, req, crashes, ghosts>>

\* The message with the code, sent in the background: a mail that is lost is a
\* user who never gives the right answer.
EmailVerificationMessage(e) == Append(sent, e)

\* make_otp_code: a code no other equals, for an address.
MakeOtpCode(e) ==
    /\ Len(sent) < MaxCodes
    /\ sent' = EmailVerificationMessage(e)

\* The cache entry of code n.
OtpEntry(n) == [val |-> n, ttl |-> OtpTtl]

Compared(n) == tries' = [tries EXCEPT ![n] = @ + 1]

-----------------------------------------------------------------------------
(* Confirming the address                                                  *)

\* verify_email/send_code: the user is read, the code is set if there is none.
VerifyEmailSendCode(r, u) ==
    /\ CurrentUser(r, "verify", u)
    /\ Hit(u, "verify_email_send") /\ Allowed(u, "verify_email_send")
    /\ IF user[u].email = None \/ user[u].email_verified
       THEN Ends
       ELSE GoesOn(r, [op |-> "verify_send", u |-> u, email |-> user[u].email])
    /\ UNCHANGED <<user, session, cache, sent, crashes, proven, mixed, since, tries>>

VerifyEmailSetCode(r) ==
    /\ req[r].op = "verify_send"
    /\ \/ /\ ~Alive(otp[req[r].u])
          /\ MakeOtpCode(req[r].email)
          /\ otp' = [otp EXCEPT ![req[r].u] = OtpEntry(Len(sent'))]
       \/ Alive(otp[req[r].u]) /\ UNCHANGED <<sent, otp>>
    /\ req' = [req EXCEPT ![r] = Idle]
    /\ UNCHANGED <<user, session, pending, code, completed, rate, made, crashes, ghosts>>

\* A mutant of VerifyEmailComplete: it reads the code of a change, under the key of
\* change_email_complete.
VerifyEmailCompleteByChangeCode(r, u, right) ==
    /\ CurrentUser(r, "verify", u)
    /\ Hit(u, "verify_email") /\ Allowed(u, "verify_email")
    /\ Alive(code[u]) /\ right /\ Compared(code[u].val)
    /\ GoesOn(r, [op |-> "verify_save", u |-> u, n |-> code[u].val])
    /\ UNCHANGED <<user, session, cache, sent, crashes, proven, mixed, since>>

\* verify_email/complete: the answer, right or wrong, is compared with the code.
VerifyEmailComplete(r, u, right) ==
    /\ CurrentUser(r, "verify", u)
    /\ Hit(u, "verify_email") /\ Allowed(u, "verify_email")
    /\ \/ ~Alive(otp[u]) /\ Ends /\ UNCHANGED tries
       \/ /\ Alive(otp[u]) /\ Compared(otp[u].val)
          /\ IF right
             THEN GoesOn(r, [op |-> "verify_save", u |-> u, n |-> otp[u].val])
             ELSE Ends
    /\ UNCHANGED <<user, session, cache, sent, crashes, proven, mixed, since>>

VerifyEmailSave(r) ==
    LET u == req[r].u
    IN  /\ req[r].op = "verify_save"
        /\ user' = [user EXCEPT ![u].email_verified = TRUE]
        /\ proven' = [proven EXCEPT ![u] = @ \cup {sent[req[r].n]}]
        /\ req' = [req EXCEPT ![r] = Idle]
        /\ UNCHANGED <<session, cache, rate, sent, made, crashes, mixed, disturbed,
                       since, tries>>

-----------------------------------------------------------------------------
(* Changing the address                                                    *)

\* A mutant of ChangeEmailStart: the mark of a change is not looked at.
ChangeEmailStartUnmarked(r, u, e) ==
    /\ CurrentUser(r, "change", u)
    /\ Hit(u, "change_email") /\ Allowed(u, "change_email")
    /\ ~ExistsWithEmail(e)
    /\ GoesOn(r, [op |-> "pend", u |-> u, email |-> e])
    /\ UNCHANGED <<user, session, cache, sent, crashes, proven, mixed, since, tries>>

\* change_email/start: not soon after another change, and not to a taken address.
ChangeEmailStart(r, u, e) ==
    /\ CurrentUser(r, "change", u)
    /\ Hit(u, "change_email") /\ Allowed(u, "change_email")
    /\ IF completed[u] > 0 \/ ExistsWithEmail(e)
       THEN Ends
       ELSE GoesOn(r, [op |-> "pend", u |-> u, email |-> e])
    /\ UNCHANGED <<user, session, cache, sent, crashes, proven, mixed, since, tries>>

\* The new address is set if there is none, and a code is sent as on a resend.
ChangeEmailSetPending(r) ==
    LET u == req[r].u
    IN  /\ req[r].op = "pend"
        /\ IF Alive(pending[u])
           THEN req' = [req EXCEPT ![r] = Idle] /\ UNCHANGED <<pending, mixed>>
           ELSE /\ pending' = [pending EXCEPT ![u] = [val |-> req[r].email, ttl |-> PendingTtl]]
                /\ mixed' = IF Alive(code[u]) /\ sent[code[u].val] # req[r].email
                            THEN mixed \cup {u} ELSE mixed
                /\ req' = [req EXCEPT ![r] = [op |-> "resend", u |-> u]]
        /\ UNCHANGED <<user, session, code, completed, otp, rate, sent, made, crashes,
                       proven, disturbed, since, tries>>

\* change_email/resend_code.
ChangeEmailResendCode(r, u) ==
    /\ CurrentUser(r, "resend", u)
    /\ Hit(u, "change_email_send") /\ Allowed(u, "change_email_send")
    /\ GoesOn(r, [op |-> "resend", u |-> u])
    /\ UNCHANGED <<user, session, cache, sent, crashes, proven, mixed, since, tries>>

ResendRead(r) ==
    LET u == req[r].u
    IN  /\ req[r].op = "resend"
        /\ req' = [req EXCEPT ![r] = IF Alive(pending[u])
                     THEN [op |-> "code", u |-> u, email |-> pending[u].val] ELSE Idle]
        /\ UNCHANGED <<user, session, cache, rate, sent, made, crashes, ghosts>>

ResendSetCode(r) ==
    LET u == req[r].u
    IN  /\ req[r].op = "code"
        /\ \/ /\ ~Alive(code[u])
              /\ MakeOtpCode(req[r].email)
              /\ code' = [code EXCEPT ![u] = OtpEntry(Len(sent'))]
              /\ mixed' = IF Alive(pending[u]) /\ pending[u].val # req[r].email
                          THEN mixed \cup {u} ELSE mixed
           \/ Alive(code[u]) /\ UNCHANGED <<sent, code, mixed>>
        /\ req' = [req EXCEPT ![r] = Idle]
        /\ UNCHANGED <<user, session, pending, completed, otp, rate, made, crashes, proven,
                       disturbed, since, tries>>

\* change_email/complete: address and code are read at once.  Without an address
\* the call fails; else it goes on to the mark, by way of the row if the answer
\* is right.
ChangeEmailComplete(r, u, right) ==
    /\ CurrentUser(r, "change", u)
    /\ Hit(u, "change_email") /\ Allowed(u, "change_email")
    /\ \/ ~Alive(pending[u]) /\ Ends /\ UNCHANGED tries
       \/ /\ Alive(pending[u])
          /\ IF Alive(code[u]) THEN Compared(code[u].val) ELSE UNCHANGED tries
          /\ IF Alive(code[u]) /\ right
             THEN GoesOn(r, [op |-> "save", u |-> u, email |-> pending[u].val,
                             n |-> code[u].val])
             ELSE GoesOn(r, [op |-> "mark", u |-> u])
    /\ UNCHANGED <<user, session, cache, sent, crashes, proven, mixed, since>>

\* The row gets the address, unless another user has got it meanwhile: then the
\* index refuses the update and the request fails without the mark.
ChangeEmailSave(r) ==
    LET u == req[r].u
        row == [user[u] EXCEPT !.email = req[r].email, !.email_verified = TRUE]
    IN  /\ req[r].op = "save"
        /\ IF Unique(u, row)
           THEN /\ user' = [user EXCEPT ![u] = row]
                /\ proven' = [proven EXCEPT ![u] = @ \cup {sent[req[r].n]}]
                /\ since' = IF row.email = user[u].email THEN since
                            ELSE [since EXCEPT ![u] = CompletedTtl]
                /\ req' = [req EXCEPT ![r] = [op |-> "mark", u |-> u]]
           ELSE req' = [req EXCEPT ![r] = Idle] /\ UNCHANGED <<user, proven, since>>
        /\ UNCHANGED <<session, cache, rate, sent, made, crashes, mixed, disturbed, tries>>

\* The mark is set whether or not the answer was right.
ChangeEmailMark(r) ==
    /\ req[r].op = "mark"
    /\ completed' = [completed EXCEPT ![req[r].u] = CompletedTtl]
    /\ req' = [req EXCEPT ![r] = Idle]
    /\ UNCHANGED <<user, session, pending, code, otp, rate, sent, made, crashes, ghosts>>

-----------------------------------------------------------------------------
(* Time and restarts                                                       *)

Less(n) == IF n > 0 THEN n - 1 ELSE 0
Older(entry) == IF entry.ttl > 1 THEN [entry EXCEPT !.ttl = @ - 1] ELSE Gone

Tick ==
    /\ pending' = [u \in Users |-> Older(pending[u])]
    /\ code' = [u \in Users |-> Older(code[u])]
    /\ otp' = [u \in Users |-> Older(otp[u])]
    /\ completed' = [u \in Users |-> Less(completed[u])]
    /\ since' = [u \in Users |-> Less(since[u])]
    /\ rate' = [u \in Users |-> [k \in Keys |->
                  IF rate[u][k].ttl > 1 THEN [rate[u][k] EXCEPT !.ttl = @ - 1]
                                        ELSE [n |-> 0, ttl |-> 0]]]
    /\ UNCHANGED <<user, session, sent, req, made, crashes, proven, mixed, disturbed,
                   tries>>

\* The server restarts: requests end where they are.
Restart ==
    /\ crashes < MaxCrashes /\ crashes' = crashes + 1
    /\ \E r \in Requests : req[r] # Idle
    /\ disturbed' = disturbed \cup {u \in Users : Busy(u)}
    /\ req' = [r \in Requests |-> Idle]
    /\ UNCHANGED <<user, session, cache, rate, sent, made, proven, mixed, since, tries>>

Verify(r) ==
    \/ \E u \in Users : \/ TooMany(r, "verify", u, "verify_email_send")
                        \/ TooMany(r, "verify", u, "verify_email")
                        \/ VerifyEmailSendCode(r, u)
                        \/ \E right \in BOOLEAN : VerifyEmailComplete(r, u, right)
    \/ VerifyEmailSetCode(r) \/ VerifyEmailSave(r)

Change(r) ==
    \/ \E u \in Users : \/ TooMany(r, "change", u, "change_email")
                        \/ TooMany(r, "resend", u, "change_email_send")
                        \/ ChangeEmailResendCode(r, u)
                        \/ \E e \in Emails : ChangeEmailStart(r, u, e)
                        \/ \E right \in BOOLEAN : ChangeEmailComplete(r, u, right)
    \/ ChangeEmailSetPending(r) \/ ResendRead(r) \/ ResendSetCode(r)
    \/ ChangeEmailSave(r) \/ ChangeEmailMark(r)

Next ==
    /\ \/ \E u \in Users : \/ \E e \in Emails : SignUp(u, e)
                           \/ \E n \in Names : CreateSuperuser(u, n)
                           \/ TokenExpires(u)
       \/ \E login \in Emails \cup Names : SignIn(login)
       \/ \E r \in Requests : Verify(r) \/ Change(r)
       \/ Tick \/ Restart
    /\ UNCHANGED ops

Spec == Init /\ [][Next]_vars

-----------------------------------------------------------------------------
(* Properties                                                              *)

\* The type invariant.
TypeOK ==
    /\ user \in [Users -> Row \cup {None}]
    /\ session \subseteq {u \in Users : Exists(u)}
    /\ \A u \in Users :
         /\ pending[u].ttl \in 0..PendingTtl /\ pending[u].val \in Emails \cup {None}
         /\ code[u].ttl \in 0..OtpTtl /\ otp[u].ttl \in 0..OtpTtl
         /\ completed[u] \in 0..CompletedTtl /\ since[u] \in 0..CompletedTtl
         /\ \A k \in Keys : rate[u][k].ttl \in 0..Period /\ rate[u][k].n \in 0..(LimitOf(k) + 1)
    /\ sent \in Seq(Emails)
    /\ mixed \cup disturbed \subseteq Users

\* Where uploads need it, whoever may upload is a superuser or has given a code
\* that was sent to the address of the row, unless a change began, or a resend
\* ended, while the cache held a code made for another address
\* (change_email_complete compares with whatever code there is).
VerifiedIsProven ==
    \A u \in Users : VerificationRequired /\ VerifiedCurrentUser(u) =>
        user[u].superuser \/ user[u].email \in proven[u] \/ u \in mixed

\* An address changes twice within CompletedTtl only if requests of the user
\* overlapped or one was cut off between the row and the mark.
ChangesSpaced ==
    [][\A u \in Users : Exists(u) /\ user'[u].email # user[u].email
         => since[u] = 0 \/ u \in disturbed]_vars

\* A code stands against no more than 2 * Limit - 1 answers: the limiter's windows
\* are not aligned with the life of a code, so the end of one and the next one
\* count together, but the call that opened the first was too early for the code.
TriesBounded ==
    \A n \in 1..MaxCodes : tries[n] <= 2 * Limit - 1
=============================================================================
