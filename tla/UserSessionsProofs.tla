-------------------------- MODULE UserSessionsProofs --------------------------
(***************************************************************************)
(* What holds of UserSessions for any users, sessions, lifetimes and       *)
(* number of requests at work.                                             *)
(*                                                                         *)
(* The inductive invariant says of the rows that requests have read what   *)
(* the properties say of the table: a commit writes the columns in which   *)
(* the row in memory differs from the row read, so both tokens of a row    *)
(* are written or neither exactly because the row read had both or none    *)
(* and an answer has two that are new.                                     *)
(***************************************************************************)
EXTENDS UserSessions, TLAPS

\* What a request has checked before it goes to work.
Checked(r) ==
    /\ r.op = "login" => r.user \in Users
    /\ r.op \in {"refresh", "logout", "use"} => r.seen # None
    /\ r.op = "refresh" => r.seen.user # None
    /\ r.op = "use" => r.seen.access # None
    /\ r.op = "prefer" => r.arg \in Keys

PairedRow(row) == (row.access = None) <=> (row.refresh = None)

\* The row a request starts from.
Base(r) == IF r.seen = None THEN NewRow ELSE r.seen

RequestInv ==
    \A q \in Slots : request[q] # None =>
        /\ Checked(request[q])
        /\ request[q].since <= clock
        /\ request[q].seen # None /\ request[q].session \notin reissued =>
              PairedRow(request[q].seen)

\* An answer has two tokens; a session that is not stored has none to remember.
AnswerInv ==
    \A s \in Sessions :
        /\ answer[s] = NoTokens \/ answer[s] \in Token \X Token
        /\ sessions[s] = None => answer[s] = NoTokens

\* A session signed out for good has no renewal at work.
OutInv ==
    \A s \in ended \ excused :
        /\ sessions[s] # None => sessions[s].access = None /\ sessions[s].refresh = None
        /\ ~Renewing(s)

SessionsInv ==
    SessionsTypeOK /\ RequestInv /\ AnswerInv /\ TokensOfOneAnswer /\ OutInv

\* The tokens of a row.
TokensOf(row) == <<row.access, row.refresh>>

-----------------------------------------------------------------------------
(* The rows that requests write.                                           *)

LEMMA BaseIsRow ==
  ASSUME NEW r \in Request
  PROVE  Base(r) \in Row
  BY DEF Base, Request, NewRow, Row, Maybe

LEMMA NoneIsNone == None \notin Token /\ None \notin Row
  BY NoneAssumption

\* An answer has two tokens.
LEMMA AnsweredTokens ==
  ASSUME NEW r \in Request, NEW iats \in [access : 0..MaxClock, refresh : 0..MaxClock],
         Checked(r), Answers(r)
  PROVE  /\ Answered(r, iats).access \in Token /\ Answered(r, iats).refresh \in Token
         /\ Answered(r, iats).access # None /\ Answered(r, iats).refresh # None
<1>1. CASE r.op = "login"
  <2>1. r.user \in Users /\ r.scoped \in BOOLEAN
    BY <1>1 DEF Checked, Request
  <2>2. Answered(r, iats).access \in Token /\ Answered(r, iats).refresh \in Token
    BY <1>1, <2>1 DEF Answered, Answer, Token
  <2> QED BY <2>2, NoneIsNone
<1>2. CASE r.op = "refresh"
  <2>1. r.seen \in Row /\ r.seen.user # None
    BY <1>2 DEF Checked, Request, Maybe
  <2>2. r.seen.user \in Users /\ r.seen.scoped \in BOOLEAN
    BY <2>1 DEF Row, Maybe
  <2>3. r.op # "login"
    BY <1>2
  <2>4. Answered(r, iats) = Answer(r.seen.user, r.seen.scoped, iats)
    BY <2>3 DEF Answered
  <2>5. iats.access \in 0..MaxClock /\ iats.refresh \in 0..MaxClock
    OBVIOUS
  <2>6. Answered(r, iats).access \in Token /\ Answered(r, iats).refresh \in Token
    BY <2>2, <2>4, <2>5 DEF Answer, Token
  <2> QED BY <2>6, NoneIsNone
<1> QED BY <1>1, <1>2 DEF Answers

\* The row in memory is one of the table; only signing in, renewing and signing out touch
\* its tokens.
LEMMA IntendedRow ==
  ASSUME NEW r \in Request, NEW iats \in [access : 0..MaxClock, refresh : 0..MaxClock],
         Checked(r)
  PROVE  /\ Intended(r, iats) \in Row
         /\ Answers(r) => /\ Intended(r, iats).access = Answered(r, iats).access
                          /\ Intended(r, iats).refresh = Answered(r, iats).refresh
         /\ r.op = "logout" => /\ Intended(r, iats).access = None
                               /\ Intended(r, iats).refresh = None
         /\ ~Answers(r) /\ r.op # "logout" => /\ Intended(r, iats).access = Base(r).access
                                             /\ Intended(r, iats).refresh = Base(r).refresh
<1> DEFINE row == Base(r)  new == Intended(r, iats)
<1>1. row \in Row
  BY BaseIsRow
<1>0. iats.access \in 0..MaxClock /\ iats.refresh \in 0..MaxClock
  OBVIOUS
<1>2. CASE r.op = "login"
  <2>1. new = Issued(row, r.user, r.scoped, iats)
    BY <1>2 DEF Intended, Base
  <2>2. Answered(r, iats) = Answer(r.user, r.scoped, iats) /\ Answers(r)
    BY <1>2 DEF Answered, Answers
  <2>3. /\ Answer(r.user, r.scoped, iats).access \in Token
        /\ Answer(r.user, r.scoped, iats).refresh \in Token
    BY <2>2, AnsweredTokens
  <2>4. r.user \in Users /\ r.scoped \in BOOLEAN
    BY <1>2 DEF Checked, Request
  <2> HIDE DEF row
  <2> QED BY <1>0, <1>1, <1>2, <2>1, <2>2, <2>3, <2>4 DEF Issued, Row, Maybe
<1>3. CASE r.op = "refresh"
  <2>1. new = Issued(row, row.user, row.scoped, iats) /\ row = r.seen
    BY <1>3 DEF Intended, Base, Checked
  <2>2. Answered(r, iats) = Answer(row.user, row.scoped, iats) /\ Answers(r)
    BY <1>3, <2>1 DEF Answered, Answers
  <2>3. /\ Answer(row.user, row.scoped, iats).access \in Token
        /\ Answer(row.user, row.scoped, iats).refresh \in Token
    BY <2>2, AnsweredTokens
  <2>4. row.scoped \in BOOLEAN /\ row.user \in Maybe(Users)
    BY <1>1 DEF Row
  <2> DEFINE told == Answer(row.user, row.scoped, iats)
  <2>5. new = [user |-> row.user, access |-> told.access, refresh |-> told.refresh,
               expires |-> iats.access, scoped |-> row.scoped, prefs |-> row.prefs]
    <3> HIDE DEF row
    <3> QED BY <1>1, <2>1 DEF Issued, Row
  <2>6. row.prefs \in SUBSET Keys
    BY <1>1 DEF Row
  <2>7. new \in Row
    <3> HIDE DEF row, new, told
    <3> QED BY <1>0, <2>3, <2>4, <2>5, <2>6 DEF Row, Maybe, told
  <2>8. new.access = told.access /\ new.refresh = told.refresh
    <3> HIDE DEF row, new, told
    <3> QED BY <2>5
  <2> QED BY <1>3, <2>2, <2>7, <2>8
<1>4. CASE r.op = "logout"
  <2>1. new = SignedOut(row) /\ ~Answers(r)
    BY <1>4 DEF Intended, Base, Answers
  <2> QED BY <1>1, <1>4, <2>1 DEF Row, Maybe, SignedOut
<1>5. CASE r.op = "use"
  <2>1. new = [row EXCEPT !.expires = row.access.iat] /\ ~Answers(r)
    BY <1>5 DEF Intended, Base, Answers
  <2>2. row.access \in Token
    BY <1>1, <1>5 DEF Checked, Base, Row, Maybe
  <2>3. row.access.iat \in 0..MaxClock
    BY <2>2 DEF Token
  <2> QED BY <1>1, <1>5, <2>1, <2>3 DEF Row, Maybe
<1>6. r.user \in Maybe(Users)
  BY DEF Request
<1>7. CASE r.op = "own"
  <2>1. new = Owned(row, r.user) /\ ~Answers(r)
    BY <1>7 DEF Intended, Base, Answers
  <2> QED BY <1>1, <1>6, <1>7, <2>1 DEF Owned, Row, Maybe
<1>8. CASE r.op = "prefer"
  <2>1. new = [Owned(row, r.user) EXCEPT !.prefs = Merged(@, r.arg)] /\ ~Answers(r)
    BY <1>8 DEF Intended, Base, Answers
  <2>2. Owned(row, r.user) \in Row /\ Owned(row, r.user).access = row.access
           /\ Owned(row, r.user).refresh = row.refresh
    BY <1>1, <1>6 DEF Owned, Row, Maybe
  <2>3. Merged(Owned(row, r.user).prefs, r.arg) \in SUBSET Keys
    BY <1>8, <2>2 DEF Merged, Checked, Row
  <2> QED BY <1>1, <1>8, <2>1, <2>2, <2>3 DEF Row
<1> QED BY <1>2, <1>3, <1>4, <1>5, <1>7, <1>8 DEF Request

\* What a commit writes, column by column.
LEMMA WrittenRow ==
  ASSUME NEW r \in Request, NEW row \in Row, NEW new \in Row, NEW forced \in Forced(r)
  PROVE  /\ Written(r, row, new, forced) \in Row
         /\ Written(r, row, new, forced).access =
              IF new.access # r.seen.access THEN new.access ELSE row.access
         /\ Written(r, row, new, forced).refresh =
              IF new.refresh # r.seen.refresh THEN new.refresh ELSE row.refresh
<1>1. forced \subseteq {"expires"}
  BY DEF Forced
<1>2. DOMAIN new = {"user", "access", "refresh", "expires", "scoped", "prefs"}
  BY DEF Row
<1> DEFINE val(c) == IF new[c] # r.seen[c] \/ c \in forced THEN new[c] ELSE row[c]
<1>3. Written(r, row, new, forced) =
        [user |-> val("user"), access |-> val("access"), refresh |-> val("refresh"),
         expires |-> val("expires"), scoped |-> val("scoped"),
         prefs |-> val("prefs")]
  BY <1>2 DEF Written
<1>4. /\ val("user") \in Maybe(Users) /\ val("access") \in Maybe(Token)
      /\ val("refresh") \in Maybe(Token) /\ val("expires") \in Maybe(0..MaxClock)
      /\ val("scoped") \in BOOLEAN /\ val("prefs") \in SUBSET Keys
  BY DEF Row
<1> QED BY <1>1, <1>3, <1>4 DEF Row

-----------------------------------------------------------------------------
(* The invariant.                                                          *)

LEMMA InvInit == Init => SessionsInv
<1> SUFFICES ASSUME Init PROVE SessionsInv OBVIOUS
<1> USE DEF Init
<1>1. SessionsTypeOK
  BY ClockAssumption DEF SessionsTypeOK, Maybe, NoTokens
<1>2. RequestInv /\ AnswerInv /\ TokensOfOneAnswer /\ OutInv
  BY DEF RequestInv, AnswerInv, TokensOfOneAnswer, OutInv
<1> QED BY <1>1, <1>2 DEF SessionsInv

\* A session whose answers were all new knows both tokens or none.
LEMMA StoredPairs ==
  ASSUME SessionsInv, NEW s \in Sessions \ reissued, sessions[s] # None
  PROVE  PairedRow(sessions[s])
<1>1. TokensOf(sessions[s]) = answer[s]
  BY DEF SessionsInv, TokensOfOneAnswer, TokensOf
<1>2. CASE answer[s] = NoTokens
  BY <1>1, <1>2 DEF TokensOf, NoTokens, PairedRow
<1>3. CASE answer[s] \in Token \X Token
  BY <1>1, <1>3, NoneIsNone DEF TokensOf, PairedRow
<1> QED BY <1>2, <1>3 DEF SessionsInv, AnswerInv

\* A request that comes.
LEMMA BeginStep ==
  ASSUME SessionsInv, NEW q \in Slots, NEW s \in Sessions,
         NEW op \in {"login", "refresh", "logout", "use", "own", "prefer"},
         NEW u \in Maybe(Users), NEW arg \in Maybe(Keys), NEW scoped \in BOOLEAN,
         Begin(q, op, s, u, arg, scoped), users' \subseteq Users,
         op = "login" => u \in Users,
         op \in {"refresh", "logout", "use"} => sessions[s] # None,
         op = "refresh" => sessions[s].user # None /\ sessions[s].refresh # None,
         op = "use" => sessions[s].access # None,
         op = "prefer" => arg \in Keys
  PROVE  SessionsInv'
<1> DEFINE r == [op |-> op, session |-> s, user |-> u, arg |-> arg, scoped |-> scoped,
                 seen |-> sessions[s], since |-> clock]
<1>1. request' = [request EXCEPT ![q] = r]
      /\ UNCHANGED <<clock, sessions, ended, excused, answer, reissued>>
  BY DEF Begin, historyVars
<1>2. r \in Request /\ clock \in Nat
  BY ClockAssumption DEF SessionsInv, SessionsTypeOK, Request
<1>3. SessionsTypeOK'
  BY <1>1, <1>2 DEF SessionsInv, SessionsTypeOK, Maybe
<1>4. /\ Checked(r) /\ r.since <= clock
      /\ r.seen # None /\ r.session \notin reissued => PairedRow(r.seen)
  BY <1>2, StoredPairs DEF SessionsInv, Checked
<1>5. RequestInv'
  <2> SUFFICES ASSUME NEW p \in Slots, request'[p] # None
               PROVE  /\ Checked(request'[p]) /\ request'[p].since <= clock'
                      /\ request'[p].seen # None /\ request'[p].session \notin reissued' =>
                           PairedRow(request'[p].seen)
    BY DEF RequestInv, Checked, PairedRow
  <2>1. request'[p] = IF p = q THEN r ELSE request[p]
    BY <1>1 DEF SessionsInv, SessionsTypeOK
  <2>2. CASE p = q
    BY <1>1, <1>4, <2>1, <2>2
  <2>3. CASE p # q
    BY <1>1, <2>1, <2>3 DEF SessionsInv, RequestInv
  <2> QED BY <2>2, <2>3
<1>6. TokensOfOneAnswer' /\ AnswerInv'
  BY <1>1 DEF SessionsInv, TokensOfOneAnswer, AnswerInv
<1>7. OutInv'
  <2> SUFFICES ASSUME NEW x \in ended \ excused
               PROVE  /\ sessions[x] # None => sessions[x].access = None /\ sessions[x].refresh = None
                      /\ ~Renewing(x)'
    BY <1>1 DEF OutInv
  <2>1. /\ sessions[x] # None => sessions[x].access = None /\ sessions[x].refresh = None
        /\ ~Renewing(x)
    BY DEF SessionsInv, OutInv
  <2>2. ASSUME NEW p \in Slots, request'[p] # None, request'[p].op = "refresh",
               request'[p].session = x
        PROVE  FALSE
    <3>1. request'[p] = IF p = q THEN r ELSE request[p]
      BY <1>1 DEF SessionsInv, SessionsTypeOK
    <3>2. CASE p = q
      BY <2>1, <2>2, <3>1, <3>2
    <3>3. CASE p # q
      BY <2>1, <2>2, <3>1, <3>3 DEF Renewing
    <3> QED BY <3>2, <3>3
  <2> QED BY <2>1, <2>2 DEF Renewing
<1> QED BY <1>3, <1>5, <1>6, <1>7 DEF SessionsInv

\* A request that ends without a change of the table.
LEMMA FailStep ==
  ASSUME SessionsInv, NEW q \in Slots, Fail(q)
  PROVE  SessionsInv'
<1>1. request' = [request EXCEPT ![q] = None]
      /\ UNCHANGED <<clock, users, sessions, ended, excused, answer, reissued>>
  BY DEF Fail, historyVars
<1>2. \A p \in Slots : request'[p] = IF p = q THEN None ELSE request[p]
  BY <1>1 DEF SessionsInv, SessionsTypeOK
<1>3. SessionsTypeOK' /\ TokensOfOneAnswer' /\ AnswerInv'
  BY <1>1 DEF SessionsInv, SessionsTypeOK, TokensOfOneAnswer, AnswerInv, Maybe
<1>4. RequestInv'
  BY <1>1, <1>2 DEF SessionsInv, RequestInv, Checked, PairedRow
<1>5. OutInv'
  BY <1>1, <1>2 DEF SessionsInv, OutInv, Renewing
<1> QED BY <1>3, <1>4, <1>5 DEF SessionsInv

\* A request that commits.
LEMMA CommitStep ==
  ASSUME SessionsInv, NEW q \in Slots, Commit(q)
  PROVE  SessionsInv'
<1> DEFINE r == request[q]  s == r.session  row == sessions[s]
<1>1. /\ r # None /\ request' = [request EXCEPT ![q] = None]
      /\ UNCHANGED <<clock, users>>
      /\ (r.seen = None) <=> (row = None)
  BY DEF Commit
<1>2. /\ r \in Request /\ s \in Sessions /\ row \in Maybe(Row)
      /\ Checked(r) /\ r.since <= clock /\ r.since \in Nat /\ clock \in 0..MaxClock
      /\ r.seen # None /\ s \notin reissued => PairedRow(r.seen)
  BY <1>1 DEF SessionsInv, SessionsTypeOK, RequestInv, Maybe, Request
<1>3. PICK iats \in Seconds(r), forced \in Forced(r) :
        /\ sessions' = [sessions EXCEPT ![s] =
                          IF row = None THEN Intended(r, iats)
                          ELSE Written(r, row, Intended(r, iats), forced)]
        /\ Remember(r, iats)
  BY DEF Commit
<1>4. iats \in [access : 0..MaxClock, refresh : 0..MaxClock]
  <2>1. r.since..clock \subseteq 0..MaxClock
    BY <1>2, ClockAssumption
  <2> QED BY <2>1 DEF Seconds
<1> DEFINE new == Intended(r, iats)
           out == IF row = None THEN new ELSE Written(r, row, new, forced)
           told == <<Answered(r, iats).access, Answered(r, iats).refresh>>
<1>5. /\ new \in Row
      /\ Answers(r) => TokensOf(new) = told
      /\ r.op = "logout" => new.access = None /\ new.refresh = None
      /\ ~Answers(r) /\ r.op # "logout" =>
            new.access = Base(r).access /\ new.refresh = Base(r).refresh
  BY <1>2, <1>4, IntendedRow DEF TokensOf
<1>6. row # None => /\ out \in Row
                    /\ out.access = IF new.access # r.seen.access THEN new.access ELSE row.access
                    /\ out.refresh = IF new.refresh # r.seen.refresh THEN new.refresh ELSE row.refresh
  BY <1>2, <1>5, WrittenRow DEF Maybe
<1>7. out \in Row /\ out # None
  <2>1. out \in Row
    BY <1>5, <1>6
  <2> QED BY <2>1, NoneIsNone
<1>8. \A x \in Sessions : sessions'[x] = IF x = s THEN out ELSE sessions[x]
  BY <1>2, <1>3 DEF SessionsInv, SessionsTypeOK
<1>9. \A p \in Slots : request'[p] = IF p = q THEN None ELSE request[p]
  BY <1>1 DEF SessionsInv, SessionsTypeOK
<1>10. /\ ended' \subseteq Sessions /\ excused' \subseteq ended'
       /\ reissued' \subseteq Sessions /\ reissued \subseteq reissued'
  <2>1. ended \subseteq Sessions /\ excused \subseteq ended /\ reissued \subseteq Sessions
    BY DEF SessionsInv, SessionsTypeOK
  <2> HIDE DEF r
  <2> QED BY <1>2, <1>3, <2>1 DEF Remember, historyVars
<1>11. \A x \in Sessions \ {s} :
         /\ answer'[x] = answer[x] /\ (x \in reissued' <=> x \in reissued)
         /\ x \in ended' \ excused' => x \in ended \ excused
  <2>1. answer \in [Sessions -> Maybe(Token) \X Maybe(Token)]
    BY DEF SessionsInv, SessionsTypeOK
  <2> HIDE DEF r
  <2> QED BY <1>2, <1>3, <2>1 DEF Remember, historyVars
<1>12. answer' \in [Sessions -> Maybe(Token) \X Maybe(Token)]
  <2>1. answer \in [Sessions -> Maybe(Token) \X Maybe(Token)] /\ NoTokens \in Maybe(Token) \X Maybe(Token)
    BY DEF SessionsInv, SessionsTypeOK, NoTokens, Maybe
  <2>2. Answers(r) => told \in Maybe(Token) \X Maybe(Token)
    BY <1>2, <1>4, AnsweredTokens DEF Maybe
  <2> HIDE DEF r
  <2> QED BY <1>2, <1>3, <2>1, <2>2 DEF Remember, historyVars
\* What the request leaves behind for its own session.
<1>13. /\ s \notin reissued' => TokensOf(out) = answer'[s]
       /\ answer'[s] = NoTokens \/ answer'[s] \in Token \X Token
       /\ s \in ended' \ excused' => out.access = None /\ out.refresh = None /\ ~Renewing(s)
  <2>0. answer \in [Sessions -> Maybe(Token) \X Maybe(Token)]
    BY DEF SessionsInv, SessionsTypeOK
  <2>1. CASE Answers(r)
    <3>1. /\ ~SignsOut(r)
          /\ s \in reissued' => answer'[s] = NoTokens
          /\ s \notin reissued' => answer'[s] = told /\ ~Reissues(r, iats)
      <4> HIDE DEF r
      <4> QED BY <1>2, <1>3, <2>0, <2>1 DEF Remember, Answers, SignsOut
    <3>2. told \in Token \X Token
      BY <1>2, <1>4, <2>1, AnsweredTokens
    <3>3. s \notin reissued' => TokensOf(out) = answer'[s]
      <4>1. CASE row = None
        BY <1>5, <2>1, <3>1, <4>1
      <4>2. CASE row # None
        BY <1>1, <1>5, <1>6, <2>1, <3>1, <4>2 DEF Reissues, TokensOf
      <4> QED BY <4>1, <4>2
    <3>4. s \notin ended' \ excused'
      <4>1. CASE r.op = "login"
        <5> HIDE DEF r
        <5> QED BY <1>3, <2>1, <3>1, <4>1 DEF Remember, SignsOut
      <4>2. CASE r.op = "refresh"
        <5>1. s \notin ended \ excused
          BY <1>1, <4>2 DEF Renewing, SessionsInv, OutInv
        <5> QED BY <1>3, <3>1, <4>2, <5>1 DEF Remember, historyVars
      <4> QED BY <2>1, <4>1, <4>2 DEF Answers
    <3> QED BY <3>1, <3>2, <3>3, <3>4
  <2>2. CASE SignsOut(r)
    <3>1. /\ r.op = "logout" /\ r.seen # None /\ ~Answers(r)
          /\ r.seen.access # None /\ r.seen.refresh # None
      BY <1>2, <2>2 DEF SignsOut, Checked, Answers
    <3>2. out.access = None /\ out.refresh = None
      BY <1>1, <1>5, <1>6, <3>1
    <3>3. /\ answer'[s] = NoTokens
          /\ s \in ended' \ excused' => ~Renewing(s)
      <4> HIDE DEF r
      <4> QED BY <1>2, <1>3, <2>0, <2>2, <3>1 DEF Remember
    <3> QED BY <3>2, <3>3 DEF TokensOf, NoTokens
  <2>3. CASE ~Answers(r) /\ ~SignsOut(r)
    <3>1. UNCHANGED <<ended, excused, answer, reissued>>
      BY <1>3, <2>3 DEF Remember, historyVars
    <3>2. s \notin reissued => TokensOf(out) = answer[s]
      <4> SUFFICES ASSUME s \notin reissued PROVE TokensOf(out) = answer[s] OBVIOUS
      <4>1. CASE row = None
        <5>1. r.seen = None /\ r.op # "logout" /\ answer[s] = NoTokens
          BY <1>1, <1>2, <4>1 DEF Checked, SessionsInv, AnswerInv
        <5> QED BY <1>5, <2>3, <4>1, <5>1 DEF Base, NewRow, TokensOf, NoTokens
      <4>2. CASE row # None
        <5>1. TokensOf(row) = answer[s] /\ r.seen # None /\ PairedRow(r.seen)
          BY <1>1, <1>2, <4>2 DEF SessionsInv, TokensOfOneAnswer, TokensOf
        <5>2. out.access = row.access /\ out.refresh = row.refresh
          <6>1. CASE r.op = "logout"
            BY <1>5, <1>6, <2>3, <4>2, <5>1, <6>1 DEF SignsOut, PairedRow
          <6>2. CASE r.op # "logout"
            BY <1>5, <1>6, <2>3, <4>2, <5>1, <6>2 DEF Base
          <6> QED BY <6>1, <6>2
        <5> QED BY <5>1, <5>2 DEF TokensOf
      <4> QED BY <4>1, <4>2
    <3>3. s \in ended \ excused => out.access = None /\ out.refresh = None /\ ~Renewing(s)
      <4> SUFFICES ASSUME s \in ended \ excused
                   PROVE  out.access = None /\ out.refresh = None /\ ~Renewing(s)
        OBVIOUS
      <4>1. /\ ~Renewing(s)
            /\ row # None => row.access = None /\ row.refresh = None
        BY DEF SessionsInv, OutInv
      <4>2. CASE row = None
        <5>1. r.seen = None /\ r.op # "logout"
          BY <1>1, <1>2, <4>2 DEF Checked
        <5> QED BY <1>5, <2>3, <4>1, <4>2, <5>1 DEF Base, NewRow
      <4>3. CASE row # None
        <5>1. r.op = "logout" \/ (new.access = r.seen.access /\ new.refresh = r.seen.refresh)
          BY <1>1, <1>5, <2>3, <4>3 DEF Base
        <5> QED BY <1>5, <1>6, <4>1, <4>3, <5>1
      <4> QED BY <4>2, <4>3
    <3>4. answer[s] = NoTokens \/ answer[s] \in Token \X Token
      BY <1>2 DEF SessionsInv, AnswerInv
    <3> QED BY <3>1, <3>2, <3>3, <3>4
  <2> QED BY <2>1, <2>2, <2>3
<1>14. SessionsTypeOK'
  BY <1>1, <1>2, <1>3, <1>7, <1>8, <1>10, <1>12 DEF SessionsInv, SessionsTypeOK, Maybe
<1>15. RequestInv'
  BY <1>1, <1>9, <1>10 DEF SessionsInv, RequestInv, Checked, PairedRow
<1>16. AnswerInv'
  BY <1>7, <1>8, <1>11, <1>13 DEF SessionsInv, AnswerInv
<1>17. TokensOfOneAnswer'
  BY <1>8, <1>11, <1>13 DEF SessionsInv, TokensOfOneAnswer, TokensOf
<1>18. OutInv'
  <2> SUFFICES ASSUME NEW x \in ended' \ excused'
               PROVE  /\ sessions'[x] # None => sessions'[x].access = None /\ sessions'[x].refresh = None
                      /\ ~Renewing(x)'
    BY DEF OutInv
  <2>1. Renewing(x)' => Renewing(x)
    BY <1>9 DEF Renewing
  <2>2. x \in Sessions
    BY <1>10
  <2>3. CASE x = s
    BY <1>8, <1>13, <2>1, <2>2, <2>3
  <2>4. CASE x # s
    BY <1>8, <1>11, <2>1, <2>2, <2>4 DEF SessionsInv, OutInv
  <2> QED BY <2>3, <2>4
<1> QED BY <1>14, <1>15, <1>16, <1>17, <1>18 DEF SessionsInv

LEMMA RemoveStep ==
  ASSUME SessionsInv, NEW s \in Sessions, Remove(s)
  PROVE  SessionsInv'
<1>1. /\ sessions' = [sessions EXCEPT ![s] = None] /\ UNCHANGED <<clock, users, request, reissued>>
      /\ ended' = ended \ {s} /\ excused' = excused \ {s}
      /\ answer' = [answer EXCEPT ![s] = NoTokens]
  BY DEF Remove
<1>2. SessionsTypeOK'
  BY <1>1 DEF SessionsInv, SessionsTypeOK, Maybe, NoTokens
<1>3. RequestInv'
  BY <1>1 DEF SessionsInv, RequestInv, Checked, PairedRow
<1>4. TokensOfOneAnswer' /\ AnswerInv'
  BY <1>1 DEF SessionsInv, SessionsTypeOK, TokensOfOneAnswer, AnswerInv
<1>5. OutInv'
  BY <1>1 DEF SessionsInv, SessionsTypeOK, OutInv, Renewing
<1> QED BY <1>2, <1>3, <1>4, <1>5 DEF SessionsInv

LEMMA TickStep ==
  ASSUME SessionsInv, Tick
  PROVE  SessionsInv'
<1>1. clock < MaxClock /\ clock' = clock + 1
      /\ UNCHANGED <<users, sessions, request, ended, excused, answer, reissued>>
  BY DEF Tick, historyVars
<1>2. clock \in 0..MaxClock /\ clock' \in 0..MaxClock
  BY <1>1, ClockAssumption DEF SessionsInv, SessionsTypeOK
<1>3. SessionsTypeOK'
  BY <1>1, <1>2 DEF SessionsInv, SessionsTypeOK
<1>4. RequestInv'
  <2>1. \A p \in Slots : request[p] # None => request[p].since \in 0..MaxClock
    BY DEF SessionsInv, SessionsTypeOK, Maybe, Request
  <2> QED BY <1>1, <1>2, <2>1, ClockAssumption DEF SessionsInv, RequestInv, Checked, PairedRow
<1>5. TokensOfOneAnswer' /\ AnswerInv' /\ OutInv'
  BY <1>1 DEF SessionsInv, TokensOfOneAnswer, AnswerInv, OutInv, Renewing
<1> QED BY <1>3, <1>4, <1>5 DEF SessionsInv

LEMMA StutterStep ==
  ASSUME SessionsInv, UNCHANGED sessionVars
  PROVE  SessionsInv'
<1>1. UNCHANGED <<clock, users, sessions, request, ended, excused, answer, reissued>>
  BY DEF sessionVars, historyVars
<1>2. SessionsTypeOK' /\ TokensOfOneAnswer' /\ AnswerInv'
  BY <1>1 DEF SessionsInv, SessionsTypeOK, TokensOfOneAnswer, AnswerInv
<1>3. RequestInv' /\ OutInv'
  BY <1>1 DEF SessionsInv, RequestInv, Checked, PairedRow, OutInv, Renewing
<1> QED BY <1>2, <1>3 DEF SessionsInv

LEMMA InvNext == SessionsInv /\ [Next]_sessionVars => SessionsInv'
<1> SUFFICES ASSUME SessionsInv, [Next]_sessionVars PROVE SessionsInv' OBVIOUS
<1>1. CASE Tick
  BY <1>1, TickStep
<1> DEFINE Ops == {"login", "refresh", "logout", "use", "own", "prefer"}
<1>0. users \subseteq Users /\ users \subseteq Maybe(Users) /\ None \in Maybe(Users) /\ None \in Maybe(Keys)
      /\ FALSE \in BOOLEAN
  BY DEF SessionsInv, SessionsTypeOK, Maybe
<1>2. ASSUME NEW q \in Slots, NEW s \in Sessions, NEW u \in Users, NEW scoped \in BOOLEAN,
             Login(q, s, u, scoped)
      PROVE  SessionsInv'
  <2>1. Begin(q, "login", s, u, None, scoped) /\ users' \subseteq Users /\ u \in Maybe(Users)
    BY <1>0, <1>2 DEF Login, Maybe
  <2> QED BY <1>0, <2>1, BeginStep
<1>3. ASSUME NEW q \in Slots, NEW s \in Sessions, Refresh(q, s) PROVE SessionsInv'
  <2>1. Begin(q, "refresh", s, None, None, FALSE) /\ users' \subseteq Users /\ sessions[s] # None
        /\ sessions[s].user # None /\ sessions[s].refresh # None
    BY <1>0, <1>3 DEF Refresh, MayRenew, Alive
  <2> QED BY <1>0, <2>1, BeginStep
<1>4. ASSUME NEW q \in Slots, NEW s \in Sessions, Logout(q, s) PROVE SessionsInv'
  <2>1. Begin(q, "logout", s, None, None, FALSE) /\ users' \subseteq Users /\ sessions[s] # None
    BY <1>0, <1>4 DEF Logout
  <2> QED BY <1>0, <2>1, BeginStep
<1>5. ASSUME NEW q \in Slots, NEW s \in Sessions, Use(q, s) PROVE SessionsInv'
  <2>1. Begin(q, "use", s, None, None, FALSE) /\ users' \subseteq Users /\ sessions[s] # None
        /\ sessions[s].access # None
    BY <1>0, <1>5 DEF Use, Alive
  <2> QED BY <1>0, <2>1, BeginStep
<1>6. ASSUME NEW q \in Slots, NEW s \in Sessions, NEW u \in Maybe(users), Own(q, s, u)
      PROVE  SessionsInv'
  <2>1. Begin(q, "own", s, u, None, FALSE) /\ users' \subseteq Users /\ u \in Maybe(Users)
    BY <1>0, <1>6 DEF Own, Maybe
  <2> QED BY <1>0, <2>1, BeginStep
<1>7. ASSUME NEW q \in Slots, NEW s \in Sessions, NEW u \in users, NEW key \in Keys,
             Prefer(q, s, u, key)
      PROVE  SessionsInv'
  <2>1. Begin(q, "prefer", s, u, key, FALSE) /\ users' \subseteq Users /\ u \in Maybe(Users)
        /\ key \in Maybe(Keys)
    BY <1>0, <1>7 DEF Prefer, Maybe
  <2> QED BY <1>0, <2>1, BeginStep
<1>9. ASSUME NEW q \in Slots, Commit(q) \/ Fail(q) PROVE SessionsInv'
  BY <1>9, CommitStep, FailStep
<1>10. ASSUME NEW s \in Sessions, Remove(s) PROVE SessionsInv'
  BY <1>10, RemoveStep
<1>11. CASE UNCHANGED sessionVars
  BY <1>11, StutterStep
<1> QED BY <1>1, <1>2, <1>3, <1>4, <1>5, <1>6, <1>7, <1>9, <1>10, <1>11 DEF Next

LEMMA InvHolds == SessionsSpec => []SessionsInv
  BY InvInit, InvNext, PTL DEF SessionsSpec

-----------------------------------------------------------------------------
\* The table user_sessions and what requests have read of it have their types in every
\* reachable state.
THEOREM SessionsTypeCorrect == SessionsSpec => []SessionsTypeOK
<1>1. SessionsInv => SessionsTypeOK
  BY DEF SessionsInv
<1> QED BY <1>1, InvHolds, PTL

\* A session knows the tokens of its last answer, or none once it was signed out, for any
\* number of requests at work, as long as no answer holds a token that was known already.
THEOREM TokensAlwaysOfOneAnswer == SessionsSpec => []TokensOfOneAnswer
<1>1. SessionsInv => TokensOfOneAnswer
  BY DEF SessionsInv
<1> QED BY <1>1, InvHolds, PTL

\* A session that was signed out with both its tokens knows none until it is signed in again, but for
\* renewals that were at work at the time.
THEOREM SignedOutForGood == SessionsSpec => []SignedOutStaysOut
<1>1. SessionsInv => SignedOutStaysOut
  BY DEF SessionsInv, OutInv, SignedOutStaysOut
<1> QED BY <1>1, InvHolds, PTL
=============================================================================
