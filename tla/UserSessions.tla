----------------------------- MODULE UserSessions -----------------------------
(***************************************************************************)
(* The table user_sessions under the requests that sign in, renew tokens,  *)
(* sign out, present a token and change settings                           *)
(* (src/agent/services/auth_service.py, session_service.py, with           *)
(* authentication switched on).                                            *)
(*                                                                         *)
(* A request reads its row, decides, and commits later; others commit in   *)
(* between.  A commit writes the columns whose values differ from those    *)
(* read, as the unit of work of SQLAlchemy does.                           *)
(***************************************************************************)
EXTENDS Naturals

CONSTANTS
    Users, Sessions, None,
    Keys,         \* of preferences
    Slots,        \* places for requests at work
    AccessLife,   \* access_token_lifetime_minutes, in ticks
    RefreshLife,  \* refresh_token_lifetime_hours, in ticks
    MaxClock      \* bound: the clock

ASSUME LifeAssumption  == AccessLife \in Nat \ {0} /\ RefreshLife \in Nat \ {0}
ASSUME ClockAssumption == MaxClock \in Nat

VARIABLES
    clock,     \* the second
    users,     \* users: those who have signed in once
    sessions,  \* user_sessions
    request,   \* the requests at work
    ended,     \* history: sessions signed out and not signed in again since
    excused,   \* history: those of ended with a renewal at work when they were signed out
    answer,    \* history: the tokens of the last answer, unless signed out since
    reissued   \* history: sessions for which an answer held a token that was read with the row

historyVars == <<ended, excused, answer, reissued>>
sessionVars == <<clock, users, sessions, request, historyVars>>

-----------------------------------------------------------------------------
\* A token names its user, the second it was issued in and whether it carries scopes, and
\* nothing else that differs between two tokens of a session.  Which scopes is left out.
Token == [user : Users, iat : 0..MaxClock, scp : BOOLEAN]
Maybe(S) == S \cup {None}
NoTokens == <<None, None>>

\* expires is the issue time of the token whose expiry access_token_expires_at shows, scoped
\* is token_scopes.  refresh_token_expires_at is left out: it can only end the life of the
\* refresh token before the token's own expiry does.
Row == [user : Maybe(Users), access : Maybe(Token), refresh : Maybe(Token),
        expires : Maybe(0..MaxClock), scoped : BOOLEAN, prefs : SUBSET Keys]

NewRow == [user |-> None, access |-> None, refresh |-> None,
           expires |-> None, scoped |-> FALSE, prefs |-> {}]

ASSUME NoneAssumption == None \notin Users \cup Keys \cup Nat \cup Token \cup Row

\* scoped: whether the provider that signs in grants scopes.
Request ==
    [op : {"login", "refresh", "logout", "use", "own", "prefer"},
     session : Sessions, user : Maybe(Users), arg : Maybe(Keys), scoped : BOOLEAN,
     seen : Maybe(Row), since : 0..MaxClock]

Init ==
    /\ clock = 0 /\ users = {}
    /\ sessions = [s \in Sessions |-> None]
    /\ request = [q \in Slots |-> None]
    /\ ended = {} /\ excused = {}
    /\ answer = [s \in Sessions |-> NoTokens] /\ reissued = {}

Tick == /\ clock < MaxClock /\ clock' = clock + 1
        /\ UNCHANGED <<users, sessions, request, historyVars>>

-----------------------------------------------------------------------------
(* A request comes, reads the session and makes its checks.                *)

Alive(token, life) == token # None /\ token.iat + life > clock

Begin(q, op, s, u, arg, scoped) ==
    /\ request[q] = None
    /\ request' = [request EXCEPT ![q] =
         [op |-> op, session |-> s, user |-> u, arg |-> arg, scoped |-> scoped,
          seen |-> sessions[s], since |-> clock]]
    /\ UNCHANGED <<clock, sessions, historyVars>>

\* basic_login, without scopes, and complete_oauth_login: the user is stored first, in a
\* commit of its own.
Login(q, s, u, scoped) ==
    Begin(q, "login", s, u, None, scoped) /\ users' = users \cup {u}

\* authenticate_refresh_token: only the session's own token passes.
MutMayRenew(row) == row.user # None
MayRenew(row) == row.user # None /\ Alive(row.refresh, RefreshLife)
Refresh(q, s) ==
    /\ sessions[s] # None /\ MayRenew(sessions[s])
    /\ Begin(q, "refresh", s, None, None, FALSE) /\ UNCHANGED users

\* logout_session.
Logout(q, s) ==
    /\ sessions[s] # None
    /\ Begin(q, "logout", s, None, None, FALSE) /\ UNCHANGED users

\* authenticate_access_token, before every request that asks for a user.
Use(q, s) ==
    /\ sessions[s] # None
    /\ LET row == sessions[s]
       IN  /\ row.user # None /\ Alive(row.access, AccessLife)
           /\ row.expires # None => row.expires + AccessLife > clock
    /\ Begin(q, "use", s, None, None, FALSE) /\ UNCHANGED users

\* _ensure_session_owner: a session of nobody is anybody's.
MayUse(row, u) == row # None => u = None \/ row.user \in {None, u}

\* get_or_create_session, which needs no user; set_active_environment writes no more of what
\* is kept here, for which environment a session has chosen is left out.
Own(q, s, u) ==
    /\ MayUse(sessions[s], u)
    /\ Begin(q, "own", s, u, None, FALSE) /\ UNCHANGED users

\* update_session with preferences.
Prefer(q, s, u, key) ==
    /\ sessions[s] # None /\ MayUse(sessions[s], u)
    /\ Begin(q, "prefer", s, u, key, FALSE) /\ UNCHANGED users

-----------------------------------------------------------------------------
(* The request ends.                                                       *)

\* Each token reads the clock for itself, the refresh token after the access token.
Answer(u, scoped, iats) ==
    [access  |-> [user |-> u, iat |-> iats.access, scp |-> scoped],
     refresh |-> [user |-> u, iat |-> iats.refresh, scp |-> FALSE]]

Issued(row, u, scoped, iats) ==
    LET tokens == Answer(u, scoped, iats)
    IN  [row EXCEPT !.user = u, !.scoped = scoped,
                    !.access = tokens.access, !.refresh = tokens.refresh,
                    !.expires = iats.access]

SignedOut(row) ==
    [row EXCEPT !.access = None, !.refresh = None, !.expires = None, !.scoped = FALSE]

Owned(row, u) == IF row.user = None THEN [row EXCEPT !.user = u] ELSE row

\* Preferences are merged into the dictionary that was read; unless that was empty it is
\* the same object afterwards, in which SQLAlchemy sees no change.
Merged(prefs, key) == IF prefs = {} THEN {key} ELSE prefs

\* The row a request has in memory when it commits; iats are the seconds in which its
\* tokens were issued.
MutIntended(r, iats) ==
    LET row == IF r.seen = None THEN NewRow ELSE r.seen
    IN  CASE r.op = "login"   -> Issued(row, r.user, r.scoped, iats)
          [] r.op = "refresh" -> [Issued(row, row.user, row.scoped, iats) EXCEPT
                                    !.refresh = row.refresh]
          [] r.op = "logout"  -> SignedOut(row)
          [] r.op = "use"     -> [row EXCEPT !.expires = row.access.iat]
          [] r.op = "own"     -> Owned(row, r.user)
          [] r.op = "prefer"  -> [Owned(row, r.user) EXCEPT !.prefs = Merged(@, r.arg)]
Intended(r, iats) ==
    LET row == IF r.seen = None THEN NewRow ELSE r.seen
    IN  CASE r.op = "login"   -> Issued(row, r.user, r.scoped, iats)
          [] r.op = "refresh" -> Issued(row, row.user, row.scoped, iats)
          [] r.op = "logout"  -> SignedOut(row)
          [] r.op = "use"     -> [row EXCEPT !.expires = row.access.iat]
          [] r.op = "own"     -> Owned(row, r.user)
          [] r.op = "prefer"  -> [Owned(row, r.user) EXCEPT !.prefs = Merged(@, r.arg)]

\* Expiries have fractions of a second: a new one is always a change, while that of a
\* token in use, which has none, is one or not.
Forced(r) ==
    CASE r.op \in {"login", "refresh"} -> {{"expires"}}
      [] r.op = "use"                  -> {{}, {"expires"}}
      [] OTHER                         -> {{}}

Written(r, row, new, forced) ==
    [c \in DOMAIN new |-> IF new[c] # r.seen[c] \/ c \in forced THEN new[c] ELSE row[c]]

\* What the history keeps of a request that is committed.
Renewing(s) == \E p \in Slots : request[p] # None /\ request[p].op = "refresh" /\ request[p].session = s

\* A sign-out that finds one token only writes one column.
SignsOut(r) == r.op = "logout" /\ r.seen.access # None /\ r.seen.refresh # None

\* The tokens of the answer, and whether the row that was read had one of them already.
Answers(r) == r.op \in {"login", "refresh"}
Answered(r, iats) ==
    IF r.op = "login" THEN Answer(r.user, r.scoped, iats)
    ELSE Answer(r.seen.user, r.seen.scoped, iats)
Reissues(r, iats) ==
    /\ r.seen # None
    /\ \/ Answered(r, iats).access = r.seen.access
       \/ Answered(r, iats).refresh = r.seen.refresh

Remember(r, iats) ==
    LET s == {r.session}
        tokens == Answered(r, iats)
    IN  \/ /\ SignsOut(r) /\ ended' = ended \cup s
           /\ excused' = IF Renewing(r.session) THEN excused \cup s ELSE excused \ s
           /\ answer' = [answer EXCEPT ![r.session] = NoTokens] /\ UNCHANGED reissued
        \/ /\ Answers(r)
           /\ IF r.op = "login" THEN ended' = ended \ s /\ excused' = excused \ s
                                ELSE UNCHANGED <<ended, excused>>
           /\ reissued' = IF Reissues(r, iats) THEN reissued \cup s ELSE reissued
           /\ answer' = [answer EXCEPT ![r.session] =
                 IF r.session \in reissued' THEN NoTokens ELSE <<tokens.access, tokens.refresh>>]
        \/ ~SignsOut(r) /\ ~Answers(r) /\ UNCHANGED historyVars

\* The seconds in which a request can have issued its tokens.
Seconds(r) ==
    {iats \in [access : r.since..clock, refresh : r.since..clock] : iats.access <= iats.refresh}

\* A row that was not there is inserted, one that was there is updated.
Commit(q) ==
    /\ request[q] # None
    /\ LET r == request[q]  row == sessions[r.session]
       IN  /\ (r.seen = None) <=> (row = None)
           /\ \E iats \in Seconds(r), forced \in Forced(r) :
                /\ sessions' = [sessions EXCEPT ![r.session] =
                     IF row = None THEN Intended(r, iats)
                     ELSE Written(r, row, Intended(r, iats), forced)]
                /\ Remember(r, iats)
    /\ request' = [request EXCEPT ![q] = None]
    /\ UNCHANGED <<clock, users>>

\* Two requests insert the same session, the session is gone, or the database fails.
Fail(q) ==
    /\ request[q] # None
    /\ request' = [request EXCEPT ![q] = None]
    /\ UNCHANGED <<clock, users, sessions, historyVars>>

\* Data retention removes a session that was not active for long.
Remove(s) ==
    /\ sessions[s] # None
    /\ sessions' = [sessions EXCEPT ![s] = None]
    /\ ended' = ended \ {s} /\ excused' = excused \ {s}
    /\ answer' = [answer EXCEPT ![s] = NoTokens]
    /\ UNCHANGED <<clock, users, request, reissued>>

-----------------------------------------------------------------------------
Next ==
    \/ Tick
    \/ \E q \in Slots, s \in Sessions :
         \/ \E u \in Users, scoped \in BOOLEAN : Login(q, s, u, scoped)
         \/ Refresh(q, s) \/ Logout(q, s) \/ Use(q, s)
         \/ \E u \in Maybe(users) : Own(q, s, u)
         \/ \E u \in users, key \in Keys : Prefer(q, s, u, key)
    \/ \E q \in Slots : Commit(q) \/ Fail(q)
    \/ \E s \in Sessions : Remove(s)

SessionsSpec == Init /\ [][Next]_sessionVars

-----------------------------------------------------------------------------
(* Properties.                                                             *)

SessionsTypeOK ==
    /\ clock \in 0..MaxClock /\ users \subseteq Users
    /\ sessions \in [Sessions -> Maybe(Row)]
    /\ request \in [Slots -> Maybe(Request)]
    /\ ended \subseteq Sessions /\ excused \subseteq ended
    /\ answer \in [Sessions -> Maybe(Token) \X Maybe(Token)] /\ reissued \subseteq Sessions

\* However sign-ins, renewals and sign-outs of a session overlap, the tokens it knows are
\* both those of the last answer (auth_service.py:238-239 and :297-298, each column written
\* only if it changed), or none if it was signed out since: whoever can call the API can also
\* renew.  The exception is a session for which an answer held a token that it knew already,
\* which one of the same second does: of such an answer only the other column is written.
TokensOfOneAnswer ==
    \A s \in Sessions \ reissued : sessions[s] # None =>
        <<sessions[s].access, sessions[s].refresh>> = answer[s]

\* A session that was signed out with both its tokens knows none (auth_service.py:106),
\* through everything that was at work or comes later, until it is signed in again; the one
\* exception is a renewal that had passed its checks before.
SignedOutStaysOut ==
    \A s \in ended \ excused :
        sessions[s] # None => sessions[s].access = None /\ sessions[s].refresh = None
=============================================================================
