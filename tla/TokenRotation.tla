---------------------------- MODULE TokenRotation ----------------------------
(***************************************************************************)
(* Refresh token rotation (TokenService).  A sign-in starts a family of    *)
(* refresh tokens; the cache keeps the id of the family's current token.   *)
(* Rotation reads the cache, compares, and then either replaces the id or, *)
(* when the token presented is not the current one, deletes the entry: two *)
(* commands to the cache, between which other requests run.                *)
(***************************************************************************)
EXTENDS Naturals, FiniteSets

CONSTANTS
    Families,     \* family ids
    TokenIds,     \* token ids; each is drawn at most once (uuid4)
    Rotations,    \* requests to rotate that may be under way at a time
    NoToken

\* A request to rotate, between its two cache commands.
Rotation == [family : Families, token : TokenIds, found : {"current", "reused"}]

ASSUME TokenAssumption == NoToken \notin TokenIds \cup Rotation

VARIABLES
    store,        \* store[f]: the id the cache has for family f
    known,        \* known[f]: the ids of f that a client has received
    drawn,        \* the ids drawn so far
    expired,      \* families whose tokens have passed their `exp`
    underway,     \* underway[r]: the request r between its two cache commands
    presented,    \* the tokens presented at least once
    twice,        \* the tokens presented more than once
    rotated,      \* the tokens accepted for rotation at least once
    rotatedTwice, \* the tokens accepted for rotation more than once
    revoked,      \* families of which a reused token was refused
    overlapped    \* families of which two requests were under way at once

tokenVars == <<store, known, drawn, expired, underway, presented, twice, rotated,
          rotatedTwice, revoked, overlapped>>
history == <<presented, twice, rotated, rotatedTwice, revoked, overlapped>>

\* The type invariant.
TokenTypeOK ==
    /\ store \in [Families -> TokenIds \cup {NoToken}]
    /\ known \in [Families -> SUBSET TokenIds]
    /\ drawn \in SUBSET TokenIds
    /\ expired \in SUBSET Families
    /\ underway \in [Rotations -> Rotation \cup {NoToken}]
    /\ {presented, twice, rotated, rotatedTwice} \subseteq SUBSET TokenIds
    /\ {revoked, overlapped} \subseteq SUBSET Families

TokenInit ==
    /\ store = [f \in Families |-> NoToken]
    /\ known = [f \in Families |-> {}]
    /\ drawn = {}
    /\ expired = {}
    /\ underway = [r \in Rotations |-> NoToken]
    /\ presented = {} /\ twice = {}
    /\ rotated = {} /\ rotatedTwice = {}
    /\ revoked = {} /\ overlapped = {}

Fresh(t) == t \in TokenIds \ drawn

\* TokenService.create, after a sign-in or a sign-up: a new family.
CreateFamily(f, t) ==
    /\ known[f] = {}
    /\ Fresh(t)
    /\ store' = [store EXCEPT ![f] = t]
    /\ known' = [known EXCEPT ![f] = {t}]
    /\ drawn' = drawn \cup {t}
    /\ UNCHANGED <<expired, underway, history>>

\* The common `exp` of a family's tokens passes: rotation does not renew it.
Expire(f) ==
    /\ f \notin expired
    /\ expired' = expired \cup {f}
    /\ UNCHANGED <<store, known, drawn, underway, history>>

\* Requests for family f that are under way.
UnderWay(f) == {r \in Rotations : underway[r] # NoToken /\ underway[r].family = f}

\* Mutant of RotateGet: any token of a live family is accepted.
RotateGetUnchecked(r, f, t) ==
    /\ underway[r] = NoToken
    /\ t \in known[f] /\ f \notin expired
    /\ store[f] # NoToken
    /\ underway' = [underway EXCEPT ![r] = [family |-> f, token |-> t, found |-> "current"]]
    /\ presented' = presented \cup {t}
    /\ twice' = twice \cup (presented \cap {t})
    /\ overlapped' = overlapped \cup {underway[q].family : q \in UnderWay(f)}
    /\ UNCHANGED <<store, known, drawn, expired, rotated, rotatedTwice, revoked>>

\* TokenService.rotate up to the cache's answer.  (With no entry for the
\* family, InvalidToken is raised and nothing changes.)
RotateGet(r, f, t) ==
    /\ underway[r] = NoToken
    /\ t \in known[f] /\ f \notin expired
    /\ store[f] # NoToken
    /\ underway' = [underway EXCEPT ![r] = [family |-> f, token |-> t,
                 found |-> IF store[f] = t THEN "current" ELSE "reused"]]
    /\ presented' = presented \cup {t}
    /\ twice' = twice \cup (presented \cap {t})
    /\ overlapped' = overlapped \cup {underway[q].family : q \in UnderWay(f)}
    /\ UNCHANGED <<store, known, drawn, expired, rotated, rotatedTwice, revoked>>

\* Mutant of RotateDelete: the reused token is refused, its family lives on.
RotateRefuseOnly(r) ==
    /\ underway[r] # NoToken /\ underway[r].found = "reused"
    /\ revoked' = revoked \cup {underway[r].family}
    /\ underway' = [underway EXCEPT ![r] = NoToken]
    /\ UNCHANGED <<store, known, drawn, expired, presented, twice, rotated, rotatedTwice,
                   overlapped>>

\* The rest of rotate for a token that is not the current one: ReusedToken.
RotateDelete(r) ==
    /\ underway[r] # NoToken /\ underway[r].found = "reused"
    /\ store' = [store EXCEPT ![underway[r].family] = NoToken]
    /\ revoked' = revoked \cup {underway[r].family}
    /\ underway' = [underway EXCEPT ![r] = NoToken]
    /\ UNCHANGED <<known, drawn, expired, presented, twice, rotated, rotatedTwice,
                   overlapped>>

\* Mutant of RotateSet: the cache is not told of the new id.
RotateUnrecorded(r, t) ==
    /\ underway[r] # NoToken /\ underway[r].found = "current"
    /\ Fresh(t)
    /\ known' = [known EXCEPT ![underway[r].family] = @ \cup {t}]
    /\ drawn' = drawn \cup {t}
    /\ rotated' = rotated \cup {underway[r].token}
    /\ rotatedTwice' = rotatedTwice \cup (rotated \cap {underway[r].token})
    /\ underway' = [underway EXCEPT ![r] = NoToken]
    /\ UNCHANGED <<store, expired, presented, twice, revoked, overlapped>>

\* The rest of rotate for the token that was current: the family's entry is
\* set to a new id, whatever it has become, and the client gets that id unless
\* the reply is lost.
RotateSet(r, t) ==
    /\ underway[r] # NoToken /\ underway[r].found = "current"
    /\ Fresh(t)
    /\ store' = [store EXCEPT ![underway[r].family] = t]
    /\ \/ known' = [known EXCEPT ![underway[r].family] = @ \cup {t}]
       \/ UNCHANGED known
    /\ drawn' = drawn \cup {t}
    /\ rotated' = rotated \cup {underway[r].token}
    /\ rotatedTwice' = rotatedTwice \cup (rotated \cap {underway[r].token})
    /\ underway' = [underway EXCEPT ![r] = NoToken]
    /\ UNCHANGED <<expired, presented, twice, revoked, overlapped>>

TokenNext ==
    \/ \E f \in Families, t \in TokenIds : CreateFamily(f, t)
    \/ \E f \in Families : Expire(f)
    \/ \E r \in Rotations, f \in Families, t \in TokenIds : RotateGet(r, f, t)
    \/ \E r \in Rotations : RotateDelete(r)
    \/ \E r \in Rotations, t \in TokenIds : RotateSet(r, t)

TokenSpec == TokenInit /\ [][TokenNext]_tokenVars

-----------------------------------------------------------------------------

\* Nobody who presents each token once is logged out: a family is revoked, or
\* about to be, only after one of its tokens was presented twice, and till then
\* the one token that was not presented yet is the current one
\* (TokenService.rotate).
RevokedOnlyOnReuse ==
    \A f \in Families :
        \/ \E t \in known[f] : t \in twice
        \/ /\ f \notin revoked
           /\ known[f] # {} => store[f] # NoToken
           /\ \A t \in known[f] \ presented : store[f] = t

\* A refresh token buys one pair of tokens, unless two requests of its family
\* were between their cache commands at the same time (ReusedToken is raised for
\* the second request with it).
RotatedTwiceOnlyIfOverlapped ==
    \A f \in Families \ overlapped : known[f] \cap rotatedTwice = {}

\* After a reused token was refused no token of its family is accepted, with the
\* same exception (TokenService.rotate deletes the family's entry).
RevivedOnlyIfOverlapped == \A f \in revoked \ overlapped : store[f] = NoToken

=============================================================================
