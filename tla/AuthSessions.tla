---------------------------- MODULE AuthSessions ----------------------------
(***************************************************************************)
(* Accounts and sessions: AuthService and AuthController over the tables   *)
(* users and refresh_tokens, with the browsers that hold the refresh       *)
(* cookie.  A session is a chain of refresh tokens, each exchanged for the *)
(* next; here it is called a family, after the token its login issued.     *)
(*                                                                         *)
(* The frontend refreshes whenever a request is answered 401, once per     *)
(* request and tab, and without waiting for a refresh under way, so the    *)
(* calls of one browser overlap.  call[c] is a call of the API in flight:  *)
(* pc names the await it has reached, and the other fields what it has     *)
(* read or been sent, to be used when it may be stale.  Passwords, access  *)
(* tokens (signed, never stored) and calls that change nothing are left    *)
(* out, as is the time: a token expires at some moment after its issue.    *)
(***************************************************************************)
EXTENDS FiniteSets, Integers

CONSTANTS
    Users,          \* primary keys the table users may draw
    Emails,         \* addresses people register
    Tokens,         \* refresh tokens, which are random and never drawn twice
    Browsers,       \* cookie jars
    Calls,          \* calls of the API that may be in flight at once
    MaxFaults,      \* bound: calls abandoned by the client or the server
    None            \* SQL's NULL, and an empty cookie jar

ASSUME FaultsAssumption == MaxFaults \in Nat

ASSUME NoneAssumption == None \notin Users \cup Emails \cup Tokens \cup Browsers

VARIABLES
    users,          \* the table users, a set of rows
    tokens,         \* the table refresh_tokens, by token (hash)
    expired,        \* tokens whose expiresAt has passed
    call,           \* the calls in flight
    cookie,         \* each browser's refresh cookie
    faults,         \* how many faults have happened
    raced,          \* history: families two calls worked on at once
    cut,            \* history: families one of whose calls was cut short
    ended,          \* history: families ended by an alarm, or by the logout
                    \*   of their active token
    reused,         \* history: families refreshed once they had ended
    alarmed         \* history: users on whom a reuse alarm was raised

history == <<raced, cut, ended, reused, alarmed>>
vars    == <<users, tokens, expired, call, cookie, faults, history>>

Account == [id : Users, email : Emails]

RefreshToken == [state : {"absent", "live", "revoked"}, user : Users \cup {None},
                 family : Tokens \cup {None}]
NoToken == [state |-> "absent", user |-> None, family |-> None]

(* token is the cookie a refresh or a logout was sent with, issued what a  *)
(* login or a refresh will answer with; family is None for a login.        *)
Call == [pc : {"idle", "create", "issue", "answer", "find", "rotate", "alarm",
               "logout"},
         browser : Browsers \cup {None}, email : Emails \cup {None},
         user : Users \cup {None}, token : Tokens \cup {None},
         family : Tokens \cup {None}, issued : Tokens \cup {None}]
NoCall == [pc |-> "idle", browser |-> None, email |-> None, user |-> None,
           token |-> None, family |-> None, issued |-> None]

TypeOK ==
    /\ users \subseteq Account
    /\ tokens \in [Tokens -> RefreshToken]
    /\ expired \subseteq Tokens
    /\ call \in [Calls -> Call]
    /\ cookie \in [Browsers -> Tokens \cup {None}]
    /\ faults \in Nat
    /\ raced \subseteq Tokens
    /\ cut \subseteq Tokens
    /\ ended \subseteq Tokens
    /\ reused \subseteq Tokens
    /\ alarmed \subseteq Users

Init ==
    /\ users = {}
    /\ tokens = [t \in Tokens |-> NoToken]
    /\ expired = {}
    /\ call = [c \in Calls |-> NoCall]
    /\ cookie = [b \in Browsers |-> None]
    /\ faults = 0
    /\ raced = {}
    /\ cut = {}
    /\ ended = {}
    /\ reused = {}
    /\ alarmed = {}

----------------------------------------------------------------------------
(* The tables.                                                             *)

Live(t)     == tokens[t].state = "live"
Idle(c)     == call[c].pc = "idle"
Family(f)   == {t \in Tokens : tokens[t].family = f}
LiveIn(f)   == {t \in Family(f) : Live(t)}
InFlight(f) == {c \in Calls : ~Idle(c) /\ call[c].family = f}
LiveOf(u)   == {t \in Tokens : Live(t) /\ tokens[t].user = u}
FamiliesOf(u) == {f \in Tokens : tokens[f].family = f /\ tokens[f].user = u}

Goto(c, label) == call' = [call EXCEPT ![c].pc = label]
EndCall(c)     == call' = [call EXCEPT ![c] = NoCall]

(* An update of refresh_tokens that sets revokedAt in the rows S.          *)
Revoke(S) ==
    tokens' = [t \in Tokens |-> IF t \in S THEN [tokens[t] EXCEPT !.state = "revoked"]
                                ELSE tokens[t]]

(* Mutant of UniqueEmail: the column is not declared unique.               *)
NotUniqueEmail(e) == TRUE

(* The unique column email of the table users.                             *)
UniqueEmail(e) == \A a \in users : a.email # e

----------------------------------------------------------------------------
(* register and login.                                                     *)

(* register's first statement finds no such account; the password is then  *)
(* hashed.  A known address is answered 409 and changes nothing.           *)
RegisterFind(c, b, e) ==
    /\ Idle(c)
    /\ \A a \in users : a.email # e
    /\ call' = [call EXCEPT ![c] = [NoCall EXCEPT !.pc = "create", !.browser = b, !.email = e]]
    /\ UNCHANGED <<users, tokens, expired, cookie, faults, history>>

CreateUser(c, u) ==
    /\ call[c].pc = "create"
    /\ \A a \in users : a.id # u
    /\ UniqueEmail(call[c].email)
    /\ users' = users \cup {[id |-> u, email |-> call[c].email]}
    /\ call' = [call EXCEPT ![c].pc = "issue", ![c].user = u]
    /\ UNCHANGED <<tokens, expired, cookie, faults, history>>

(* Another registration was faster: the insert throws, the answer is 500.  *)
CreateConflict(c) ==
    /\ call[c].pc = "create"
    /\ ~UniqueEmail(call[c].email)
    /\ EndCall(c)
    /\ UNCHANGED <<users, tokens, expired, cookie, faults, history>>

(* login finds the account and the password matches.                       *)
LoginFind(c, b, a) ==
    /\ Idle(c)
    /\ a \in users
    /\ call' = [call EXCEPT ![c] =
          [NoCall EXCEPT !.pc = "issue", !.browser = b, !.email = a.email, !.user = a.id]]
    /\ UNCHANGED <<users, tokens, expired, cookie, faults, history>>

(* issueTokens: a fresh row.  That of a login begins a family.             *)
Issue(c, t) ==
    /\ call[c].pc = "issue"
    /\ tokens[t] = NoToken
    /\ tokens' = [tokens EXCEPT ![t] =
          [state |-> "live", user |-> call[c].user,
           family |-> IF call[c].family = None THEN t ELSE call[c].family]]
    /\ call' = [call EXCEPT ![c].pc = "answer", ![c].issued = t]
    /\ UNCHANGED <<users, expired, cookie, faults, history>>

(* Mutant of Answer: the controller's refresh sets no cookie.              *)
AnswerWithoutCookie(c) ==
    /\ call[c].pc = "answer"
    /\ cookie' = IF call[c].browser = None \/ call[c].token # None THEN cookie
                 ELSE [cookie EXCEPT ![call[c].browser] = call[c].issued]
    /\ EndCall(c)
    /\ UNCHANGED <<users, tokens, expired, faults, history>>

(* The answer reaches the browser, whose jar takes the new cookie, in      *)
(* whatever order the answers arrive.                                      *)
Answer(c) ==
    /\ call[c].pc = "answer"
    /\ cookie' = IF call[c].browser = None THEN cookie
                 ELSE [cookie EXCEPT ![call[c].browser] = call[c].issued]
    /\ EndCall(c)
    /\ UNCHANGED <<users, tokens, expired, faults, history>>

----------------------------------------------------------------------------
(* refresh and logout.                                                     *)

(* The browser sends a call with the cookie it has, which may be that of a *)
(* session it has closed.  Two calls in one family at a time make a race   *)
(* of it.                                                                  *)
Send(c, b, label) ==
    LET t == cookie[b]
        f == tokens[t].family
    IN  /\ Idle(c)
        /\ t # None
        /\ call' = [call EXCEPT ![c] =
              [NoCall EXCEPT !.pc = label, !.browser = b, !.token = t, !.family = f]]
        /\ raced' = IF InFlight(f) = {} THEN raced ELSE raced \cup {f}
        /\ reused' = IF label = "find" /\ f \in ended THEN reused \cup {f} ELSE reused
        /\ UNCHANGED <<users, tokens, expired, cookie, faults, cut, ended, alarmed>>

SendRefresh(c, b) == Send(c, b, "find")
SendLogout(c, b)  == Send(c, b, "logout")

(* Mutant of Exchangeable: the expiry is left to the cookie.               *)
ExchangeableByCookie(t) == Live(t)

Exchangeable(t) == Live(t) /\ t \notin expired

(* refresh's first statement reads the row, and its user with it.          *)
RefreshFind(c) ==
    /\ call[c].pc = "find"
    /\ Exchangeable(call[c].token)
    /\ call' = [call EXCEPT ![c].pc = "rotate", ![c].user = tokens[call[c].token].user]
    /\ UNCHANGED <<users, tokens, expired, cookie, faults, history>>

(* It was revoked: somebody uses it a second time.                         *)
RefreshFindRevoked(c) ==
    /\ call[c].pc = "find"
    /\ ~Live(call[c].token)
    /\ call' = [call EXCEPT ![c].pc = "alarm", ![c].user = tokens[call[c].token].user]
    /\ UNCHANGED <<users, tokens, expired, cookie, faults, history>>

(* It has expired: 401.                                                    *)
RefreshFindExpired(c) ==
    /\ call[c].pc = "find"
    /\ Live(call[c].token)
    /\ ~Exchangeable(call[c].token)
    /\ EndCall(c)
    /\ UNCHANGED <<users, tokens, expired, cookie, faults, history>>

(* Mutant of Rotate: the old token is left as it is.                       *)
RotateNothing(c) ==
    /\ call[c].pc = "rotate"
    /\ Goto(c, "issue")
    /\ UNCHANGED <<users, tokens, expired, cookie, faults, history>>

(* The old token is revoked by primary key, whatever it is by now.         *)
Rotate(c) ==
    /\ call[c].pc = "rotate"
    /\ Revoke({call[c].token})
    /\ Goto(c, "issue")
    /\ UNCHANGED <<users, expired, cookie, faults, history>>

(* Mutant of Alarm: only the token presented is looked for.                *)
AlarmOfToken(c) ==
    LET u == call[c].user IN
    /\ call[c].pc = "alarm"
    /\ Revoke({call[c].token})
    /\ EndCall(c)
    /\ ended' = ended \cup FamiliesOf(u)
    /\ raced' = raced \cup {f \in FamiliesOf(u) : InFlight(f) \ {c} # {}}
    /\ alarmed' = alarmed \cup {u}
    /\ UNCHANGED <<users, expired, cookie, faults, cut, reused>>

(* Every active token of the user is revoked in one statement, and 401: a  *)
(* step in every family of the user, and a race with their calls.          *)
Alarm(c) ==
    LET u == call[c].user IN
    /\ call[c].pc = "alarm"
    /\ Revoke(LiveOf(u))
    /\ EndCall(c)
    /\ ended' = ended \cup FamiliesOf(u)
    /\ raced' = raced \cup {f \in FamiliesOf(u) : InFlight(f) \ {c} # {}}
    /\ alarmed' = alarmed \cup {u}
    /\ UNCHANGED <<users, expired, cookie, faults, cut, reused>>

(* Mutants of Logout: the row is left alone; and every session of the user *)
(* is closed.                                                              *)
LogoutNothing(c) ==
    /\ call[c].pc = "logout"
    /\ EndCall(c)
    /\ ended' = IF Live(call[c].token) THEN ended \cup {call[c].family} ELSE ended
    /\ UNCHANGED <<users, tokens, expired, cookie, faults, raced, cut, reused, alarmed>>

LogoutEverywhere(c) ==
    /\ call[c].pc = "logout"
    /\ Revoke(LiveOf(tokens[call[c].token].user))
    /\ EndCall(c)
    /\ ended' = IF Live(call[c].token) THEN ended \cup {call[c].family} ELSE ended
    /\ UNCHANGED <<users, expired, cookie, faults, raced, cut, reused, alarmed>>

(* The presented token is revoked, if it still is active.  The cookie      *)
(* stays: clearCookie is not told the path it was set with, '/api/auth',   *)
(* and so expires another one, at '/'.                                     *)
Logout(c) ==
    /\ call[c].pc = "logout"
    /\ Revoke({call[c].token})
    /\ EndCall(c)
    /\ ended' = IF Live(call[c].token) THEN ended \cup {call[c].family} ELSE ended
    /\ UNCHANGED <<users, expired, cookie, faults, raced, cut, reused, alarmed>>

----------------------------------------------------------------------------
(* Time and faults.                                                        *)

Expire(t) ==
    /\ tokens[t] # NoToken
    /\ t \notin expired
    /\ expired' = expired \cup {t}
    /\ UNCHANGED <<users, tokens, call, cookie, faults, history>>

(* The cookie expires together with its token.                             *)
DropCookie(b) ==
    /\ cookie[b] \in expired
    /\ cookie' = [cookie EXCEPT ![b] = None]
    /\ UNCHANGED <<users, tokens, expired, call, faults, history>>

CutShort(c) == cut' = IF call[c].family = None THEN cut ELSE cut \cup {call[c].family}

(* The client stops listening (the page is left, the network fails): the   *)
(* server works on, and its answer is lost.                                *)
Abandon(c) ==
    /\ ~Idle(c)
    /\ call[c].browser # None
    /\ faults < MaxFaults
    /\ faults' = faults + 1
    /\ call' = [call EXCEPT ![c].browser = None]
    /\ CutShort(c)
    /\ UNCHANGED <<users, tokens, expired, cookie, raced, ended, reused, alarmed>>

(* A statement fails or the process ends: 500, or no answer.               *)
CallFails(c) ==
    /\ ~Idle(c)
    /\ faults < MaxFaults
    /\ faults' = faults + 1
    /\ EndCall(c)
    /\ CutShort(c)
    /\ UNCHANGED <<users, tokens, expired, cookie, raced, ended, reused, alarmed>>

----------------------------------------------------------------------------
Step(c) ==
    \/ \E u \in Users : CreateUser(c, u)
    \/ CreateConflict(c)
    \/ \E t \in Tokens : Issue(c, t)
    \/ Answer(c)
    \/ RefreshFind(c)
    \/ RefreshFindRevoked(c)
    \/ RefreshFindExpired(c)
    \/ Rotate(c)
    \/ Alarm(c)
    \/ Logout(c)

Next ==
    \/ \E c \in Calls, b \in Browsers, e \in Emails : RegisterFind(c, b, e)
    \/ \E c \in Calls, b \in Browsers, a \in users : LoginFind(c, b, a)
    \/ \E c \in Calls, b \in Browsers : SendRefresh(c, b) \/ SendLogout(c, b)
    \/ \E c \in Calls : Step(c) \/ Abandon(c) \/ CallFails(c)
    \/ \E t \in Tokens : Expire(t)
    \/ \E b \in Browsers : DropCookie(b)

Spec == Init /\ [][Next]_vars

----------------------------------------------------------------------------
(* Safety.                                                                 *)

(* However registrations of one address overlap between register's check   *)
(* and its insert, there is one account for it.                            *)
OneAccountPerEmail == \A a, b \in users : a.email = b.email => a = b

(* Rotation: a session whose refreshes never overlapped has at most one    *)
(* token that can still be exchanged, also after a call was cut short.     *)
OneLivePerFamily == \A f \in Tokens \ raced : Cardinality(LiveIn(f)) <= 1

(* A session ended by the logout of its active token, or by the alarm that *)
(* refresh raises on a token used twice, has no token left, unless its own *)
(* calls overlapped.                                                       *)
EndedIsOver == \A f \in ended \ raced : LiveIn(f) = {}

(* A session none of whose tokens is active and unexpired, and none of     *)
(* whose refreshes is past its check, never comes back.                    *)
Dead(f) ==
    /\ tokens[f].family = f
    /\ \A t \in Family(f) : ~Live(t) \/ t \in expired
    /\ \A c \in InFlight(f) : call[c].pc \notin {"rotate", "issue"}

DeadStaysDead == [][\A f \in Tokens : Dead(f) => Dead(f)']_vars

(* The reuse alarm means something: it is raised on nobody but a user two  *)
(* of whose calls overlapped, or one of whose calls was cut short, or one  *)
(* of whose browsers refreshed a session it had logged out of: logout      *)
(* leaves it the cookie.                                                   *)
Disturbances == raced \cup cut \cup reused

NoFalseAlarm == \A u \in alarmed : \E t \in Disturbances : tokens[t].user = u

(* The cookie of any other user, while no call is about to replace it, is  *)
(* one the server still accepts, or one they have logged out of: neither   *)
(* the logout nor the refresh of another device costs them their session.  *)
HonestSession ==
    \A b \in Browsers :
        LET t == cookie[b] IN
        t # None => \/ Live(t)
                    \/ tokens[t].family \in ended
                    \/ InFlight(tokens[t].family) # {}
                    \/ \E r \in Disturbances : tokens[r].user = tokens[t].user

----------------------------------------------------------------------------
(* The inductive invariant: what the tables, the calls in flight and the   *)
(* cookies have to do with each other at every moment.                     *)

Root(f)  == tokens[f].family = f
InFamily(t, f) == t # None /\ tokens[t] # NoToken /\ tokens[t].family = f

(* A row belongs to the family, and the user, of the token its login gave. *)
RowsOfFamilies ==
    \A t \in Tokens : tokens[t] # NoToken =>
        /\ Live(t) \/ tokens[t].state = "revoked"
        /\ tokens[t].user \in Users
        /\ tokens[t].family \in Tokens
        /\ Root(tokens[t].family)
        /\ tokens[tokens[t].family].user = tokens[t].user

(* A call in flight is a registration or a login, or presents a row whose  *)
(* user it knows once it has read it.                                      *)
NewSession(c) == call[c].token = None /\ call[c].family = None
Presents(c) ==
    /\ InFamily(call[c].token, call[c].family)
    /\ call[c].pc \in {"rotate", "alarm", "issue", "answer"} =>
            call[c].user = tokens[call[c].token].user

HoldsRows(c) ==
    /\ Idle(c) => call[c] = NoCall
    /\ call[c].pc = "create" => NewSession(c) /\ call[c].email \in Emails
    /\ call[c].pc \in {"find", "rotate", "alarm", "logout"} => Presents(c)
    /\ call[c].pc \in {"issue", "answer"} =>
            call[c].user \in Users /\ (NewSession(c) \/ Presents(c))
    /\ call[c].pc = "answer" =>
            LET t == call[c].issued IN
            /\ t \in Tokens
            /\ InFamily(t, IF NewSession(c) THEN t ELSE call[c].family)
            /\ tokens[t].user = call[c].user

CallsHoldRows == \A c \in Calls : HoldsRows(c)

CookiesHoldRows ==
    \A b \in Browsers : cookie[b] # None => tokens[cookie[b]] # NoToken

HistoryIsOfFamilies == \A f \in Disturbances \cup ended : Root(f)

(* In a session that was not raced one call works at a time; between its   *)
(* check and its revocation no token but the one it was sent is active,    *)
(* and between revocation and issue none; one token at most is active; and *)
(* once it was ended none is, nor is an exchange under way.                *)
Orderly(f) ==
    /\ \A c, d \in InFlight(f) : c = d
    /\ \A c \in InFlight(f) :
        /\ call[c].pc = "rotate" => LiveIn(f) \subseteq {call[c].token}
        /\ call[c].pc = "issue" => LiveIn(f) = {}
    /\ \A s, t \in LiveIn(f) : s = t
    /\ f \in ended =>
        /\ LiveIn(f) = {}
        /\ \A c \in InFlight(f) : call[c].pc \notin {"rotate", "issue"}

SessionsOrderly == \A f \in Tokens \ raced : Orderly(f)

SessionInv ==
    /\ TypeOK
    /\ RowsOfFamilies
    /\ CallsHoldRows
    /\ CookiesHoldRows
    /\ HistoryIsOfFamilies
    /\ OneAccountPerEmail
    /\ SessionsOrderly

(* The login c is about to be answered, with the first token of family f.  *)
Answering(c, f) == call[c].pc = "answer" /\ NewSession(c) /\ call[c].issued = f

(* Nobody has seen the token of a login that was not answered yet.         *)
FreshUntilAnswered ==
    \A c \in Calls, f \in Tokens : Answering(c, f) =>
        /\ Family(f) = {f}
        /\ InFlight(f) = {}
        /\ \A b \in Browsers : ~InFamily(cookie[b], f)
        /\ \A d \in Calls : Answering(d, f) => d = c

(* A session stays in the browser that logged in.                          *)
Holds(b, f) ==
    \/ InFamily(cookie[b], f)
    \/ \E c \in Calls : call[c].browser = b /\ (c \in InFlight(f) \/ Answering(c, f))

OneHolder ==
    \A f \in Tokens : \A a, b \in Browsers : Holds(a, f) /\ Holds(b, f) => a = b

(* The only call of a session was sent with the cookie its browser still   *)
(* has, if it has one of this session, and the answer is awaited unless    *)
(* the call was cut short.                                                 *)
CallIsOfCookie ==
    \A f \in Tokens \ raced : \A c \in InFlight(f) :
        /\ \A b \in Browsers : InFamily(cookie[b], f) => cookie[b] = call[c].token
        /\ call[c].browser = None => f \in cut

(* No session of user u was raced, cut short or reused.                    *)
Undisturbed(u) == \A r \in Disturbances : tokens[r].user # u

(* Then the token a refresh was sent with is active until it is exchanged, *)
(* and that of a logout unless the session is over, the one a browser is   *)
(* about to get is active, and no alarm is on its way.                     *)
HonestCall(c) ==
    /\ call[c].pc = "find" /\ Undisturbed(tokens[call[c].token].user) => Live(call[c].token)
    /\ call[c].pc = "logout" /\ Undisturbed(tokens[call[c].token].user) =>
            Live(call[c].token) \/ call[c].family \in ended
    /\ call[c].pc = "answer" /\ Undisturbed(call[c].user) => Live(call[c].issued)
    /\ call[c].pc = "alarm" => ~Undisturbed(call[c].user)

CallsAreHonest == \A c \in Calls : HonestCall(c)

Custody == FreshUntilAnswered /\ OneHolder /\ CallIsOfCookie

Honesty == CallsAreHonest /\ NoFalseAlarm /\ HonestSession

IInv == SessionInv /\ Custody /\ Honesty

----------------------------------------------------------------------------
(* What the documents say and the code does not do.                        *)

(* auth.service.ts: on a reuse signal every other active refresh token for *)
(* that user is revoked too: no session of theirs goes on afterwards.      *)
EndedForGood ==
    \A f \in ended : tokens[f].user \in alarmed => LiveIn(f) = {}
============================================================================
