----------------------------- MODULE AuthProofs -----------------------------
(***************************************************************************)
(* Theorems about AuthSessions, for any number of users, tokens, browsers  *)
(* and calls in flight.                                                    *)
(***************************************************************************)
EXTENDS AuthSessions, FiniteSetTheorems, TLAPS

USE DEF Live, Idle, Root, Disturbances

(* What an update of refresh_tokens keeps: every row stays, with its user  *)
(* and its session.                                                        *)
RowsKept ==
    \A t \in Tokens : tokens[t] # NoToken =>
        /\ tokens'[t] # NoToken
        /\ tokens'[t].family = tokens[t].family
        /\ tokens'[t].user = tokens[t].user

(* revoke touches no other row, and of its rows only the state.            *)
LEMMA RevokeKeeps ==
  ASSUME TypeOK, RowsOfFamilies, NEW S \in SUBSET Tokens, Revoke(S),
         \A t \in S : tokens[t] # NoToken
  PROVE  /\ tokens' \in [Tokens -> RefreshToken]
         /\ RowsKept
         /\ \A t \in Tokens :
              /\ tokens[t] = NoToken <=> tokens'[t] = NoToken
              /\ tokens'[t].family = tokens[t].family
              /\ tokens'[t].user = tokens[t].user
              /\ tokens'[t].state = "live" <=> tokens[t].state = "live" /\ t \notin S
         /\ RowsOfFamilies'
<1>1. tokens' \in [Tokens -> RefreshToken]
  BY DEF TypeOK, Revoke, RefreshToken
<1>2. \A t \in Tokens :
         /\ tokens'[t] = IF t \in S THEN [tokens[t] EXCEPT !.state = "revoked"] ELSE tokens[t]
         /\ tokens[t] \in RefreshToken
  BY DEF TypeOK, Revoke
<1>3. \A t \in Tokens :
         /\ tokens[t] = NoToken <=> tokens'[t] = NoToken
         /\ tokens'[t].family = tokens[t].family
         /\ tokens'[t].user = tokens[t].user
         /\ tokens'[t].state = "live" <=> tokens[t].state = "live" /\ t \notin S
         /\ t \in S => tokens'[t].state = "revoked"
  <2> TAKE t \in Tokens
  <2>1. CASE t \in S
    <3>1. /\ tokens'[t].state = "revoked"
          /\ tokens'[t].family = tokens[t].family
          /\ tokens'[t].user = tokens[t].user
      BY <1>2, <2>1 DEF RefreshToken
    <3>2. NoToken.state = "absent"
      BY DEF NoToken
    <3> QED
      BY <2>1, <3>1, <3>2
  <2>2. CASE t \notin S
    BY <1>2, <2>2
  <2> QED
    BY <2>1, <2>2
<1>4. RowsOfFamilies'
  <2> SUFFICES ASSUME NEW t \in Tokens, tokens'[t] # NoToken
               PROVE  /\ tokens'[t].state = "live" \/ tokens'[t].state = "revoked"
                      /\ tokens'[t].user \in Users
                      /\ tokens'[t].family \in Tokens
                      /\ tokens'[tokens'[t].family].family = tokens'[t].family
                      /\ tokens'[tokens'[t].family].user = tokens'[t].user
    BY DEF RowsOfFamilies
  <2>1. /\ tokens[t].state = "live" \/ tokens[t].state = "revoked"
        /\ tokens[t].user \in Users
        /\ tokens[t].family \in Tokens
        /\ tokens[tokens[t].family].family = tokens[t].family
        /\ tokens[tokens[t].family].user = tokens[t].user
    BY <1>3 DEF RowsOfFamilies
  <2> QED
    BY <1>2, <1>3, <2>1
<1> QED
  BY <1>1, <1>3, <1>4 DEF RowsKept

(* Nothing is known of a token before its row is inserted.                 *)
LEMMA AbsentTokens ==
  ASSUME SessionInv, NEW t \in Tokens, tokens[t] = NoToken
  PROVE  /\ \A s \in Tokens : tokens[s].family # t
         /\ \A c \in Calls : 
              /\ call[c].family # t
              /\ call[c].token # t
              /\ call[c].pc = "answer" => call[c].issued # t
         /\ t \notin Disturbances \cup ended
<1>1. None \notin Tokens
  BY NoneAssumption
<1>2. tokens[t].family = None
  BY DEF NoToken
<1>3. \A s \in Tokens : tokens[s].family # t
  BY <1>1, <1>2 DEF SessionInv, RowsOfFamilies, NoToken
<1>4. ASSUME NEW c \in Calls
      PROVE  /\ call[c].family # t
             /\ call[c].token # t
             /\ call[c].pc = "answer" => call[c].issued # t
  <2>1. call[c] \in Call
    BY DEF SessionInv, TypeOK
  <2>2. Idle(c) \/ NewSession(c) \/ Presents(c)
    BY <2>1 DEF SessionInv, CallsHoldRows, HoldsRows, Call
  <2>3. call[c].family # t /\ call[c].token # t
    <3>1. CASE Idle(c)
      BY <1>1, <3>1 DEF SessionInv, CallsHoldRows, HoldsRows, NoCall
    <3>2. CASE NewSession(c)
      BY <1>1, <3>2 DEF NewSession
    <3>3. CASE Presents(c)
      <4>1. call[c].token \in Tokens
        BY <2>1, <3>3 DEF Presents, InFamily, Call
      <4> QED
        BY <1>3, <3>3, <4>1 DEF Presents, InFamily
    <3> QED
      BY <2>2, <3>1, <3>2, <3>3
  <2>4. call[c].pc = "answer" => call[c].issued # t
    BY DEF SessionInv, CallsHoldRows, HoldsRows, InFamily
  <2> QED
    BY <2>3, <2>4
<1>5. t \notin Disturbances \cup ended
  BY <1>3 DEF SessionInv, HistoryIsOfFamilies
<1> QED
  BY <1>3, <1>4, <1>5

LEMMA CallKinds ==
  ASSUME SessionInv, NEW c \in Calls
  PROVE  /\ call[c] \in Call
         /\ Idle(c) \/ NewSession(c) \/ Presents(c)
         /\ Presents(c) => call[c].token \in Tokens /\ call[c].family \in Tokens
         /\ call[c].family \in Tokens => Presents(c)
<1>1. call[c] \in Call
  BY DEF SessionInv, TypeOK
<1>2. Idle(c) \/ NewSession(c) \/ Presents(c)
  BY <1>1 DEF SessionInv, CallsHoldRows, HoldsRows, Call
<1>3. Presents(c) => call[c].token \in Tokens /\ call[c].family \in Tokens
  BY <1>1 DEF Presents, InFamily, Call, SessionInv, RowsOfFamilies
<1>4. call[c].family \in Tokens => Presents(c)
  BY <1>2, NoneAssumption DEF SessionInv, CallsHoldRows, HoldsRows, NoCall, NewSession
<1> QED
  BY <1>1, <1>2, <1>3, <1>4

(* A session nothing happened to stays in order.                           *)
LEMMA StaysOrderly ==
  ASSUME NEW f \in Tokens, Orderly(f),
         InFlight(f)' \subseteq InFlight(f),
         \A c \in InFlight(f)' : call'[c] = call[c],
         LiveIn(f)' \subseteq LiveIn(f),
         f \in ended' => f \in ended
  PROVE  Orderly(f)'
BY DEF Orderly

(* A call is over; the tables keep as they are.                            *)
LEMMA CallEnds ==
  ASSUME SessionInv, NEW c \in Calls, EndCall(c),
         UNCHANGED <<users, tokens, expired, raced, ended, reused, alarmed>>,
         cookie' \in [Browsers -> Tokens \cup {None}], CookiesHoldRows',
         faults' \in Nat,
         cut' \subseteq Tokens, \A f \in cut' : Root(f)
  PROVE  SessionInv'
<1>1. /\ call'[c] = NoCall
      /\ \A d \in Calls \ {c} : call'[d] = call[d]
      /\ call' \in [Calls -> Call]
  BY DEF EndCall, SessionInv, TypeOK, Call, NoCall
<1>2. \A f \in Tokens : InFlight(f)' = InFlight(f) \ {c} /\ LiveIn(f)' = LiveIn(f)
  BY <1>1 DEF InFlight, LiveIn, Family, NoCall
<1>3. TypeOK' /\ RowsOfFamilies' /\ OneAccountPerEmail'
  BY <1>1 DEF SessionInv, TypeOK, RowsOfFamilies, OneAccountPerEmail
<1>4. CallsHoldRows'
  BY <1>1 DEF SessionInv, CallsHoldRows, HoldsRows, NoCall, NewSession, Presents, InFamily
<1>5. HistoryIsOfFamilies'
  BY DEF SessionInv, HistoryIsOfFamilies
<1>6. SessionsOrderly'
  <2> SUFFICES ASSUME NEW f \in Tokens \ raced PROVE Orderly(f)'
    BY DEF SessionsOrderly
  <2>1. Orderly(f) /\ \A d \in InFlight(f)' : call'[d] = call[d]
    BY <1>1, <1>2 DEF SessionInv, SessionsOrderly, InFlight
  <2> QED
    BY <1>2, <2>1, StaysOrderly
<1> QED
  BY <1>3, <1>4, <1>5, <1>6 DEF SessionInv

(* A call takes a step and the tables keep as they are: the step has to    *)
(* leave the call, and its session, in order.                              *)
LEMMA CallMoves ==
  ASSUME SessionInv, NEW c \in Calls, NEW k \in Call, call' = [call EXCEPT ![c] = k],
         UNCHANGED <<tokens, expired, cookie, ended, alarmed>>,
         users' \subseteq Account, OneAccountPerEmail',
         faults' \in Nat,
         cut' \subseteq Tokens, \A f \in cut' : Root(f),
         raced \subseteq raced', raced' \subseteq Tokens, \A f \in raced' : Root(f),
         reused' \subseteq Tokens, \A f \in reused' : Root(f),
         HoldsRows(c)', k.pc # "idle",
         k.family \in Tokens \ raced' => Orderly(k.family)'
  PROVE  SessionInv'
<1>1. /\ call'[c] = k
      /\ \A d \in Calls \ {c} : call'[d] = call[d]
      /\ call' \in [Calls -> Call]
  BY DEF SessionInv, TypeOK
<1>2. \A f \in Tokens : LiveIn(f)' = LiveIn(f)
  BY DEF LiveIn, Family
<1>3. TypeOK' /\ RowsOfFamilies' /\ CookiesHoldRows'
  BY <1>1 DEF SessionInv, TypeOK, RowsOfFamilies, CookiesHoldRows
<1>4. CallsHoldRows'
  BY <1>1 DEF SessionInv, CallsHoldRows, HoldsRows, NewSession, Presents, InFamily
<1>5. HistoryIsOfFamilies'
  BY DEF SessionInv, HistoryIsOfFamilies
<1>6. SessionsOrderly'
  <2> SUFFICES ASSUME NEW f \in Tokens \ raced' PROVE Orderly(f)'
    BY DEF SessionsOrderly
  <2>1. CASE f = k.family
    BY <2>1
  <2>2. CASE f # k.family
    <3>1. InFlight(f)' \subseteq InFlight(f) /\ \A d \in InFlight(f)' : call'[d] = call[d]
      BY <1>1, <2>2 DEF InFlight
    <3>2. Orderly(f)
      BY DEF SessionInv, SessionsOrderly
    <3> QED
      BY <1>2, <3>1, <3>2, StaysOrderly
  <2> QED
    BY <2>1, <2>2
<1> QED
  BY <1>3, <1>4, <1>5, <1>6 DEF SessionInv

(* A call takes a step that revokes the rows S.                            *)
LEMMA CallRevokes ==
  ASSUME SessionInv, NEW c \in Calls, NEW k \in Call, call' = [call EXCEPT ![c] = k],
         NEW S \in SUBSET Tokens, Revoke(S), \A t \in S : tokens[t] # NoToken,
         UNCHANGED <<users, expired, cookie, faults, cut, reused>>,
         raced \subseteq raced', raced' \subseteq Tokens, \A f \in raced' : Root(f),
         ended \subseteq ended', ended' \subseteq Tokens, \A f \in ended' : Root(f),
         alarmed' \subseteq Users,
         HoldsRows(c)',
         \A f \in Tokens \ raced' : f = k.family \/ f \in ended' \ ended => Orderly(f)'
  PROVE  SessionInv'
<1>1. /\ call'[c] = k
      /\ \A d \in Calls \ {c} : call'[d] = call[d]
      /\ call' \in [Calls -> Call]
  BY DEF SessionInv, TypeOK
<1>2. /\ tokens' \in [Tokens -> RefreshToken]
      /\ \A t \in Tokens :
           /\ tokens[t] = NoToken <=> tokens'[t] = NoToken
           /\ tokens'[t].family = tokens[t].family
           /\ tokens'[t].user = tokens[t].user
           /\ tokens'[t].state = "live" <=> tokens[t].state = "live" /\ t \notin S
      /\ RowsOfFamilies'
  BY RevokeKeeps DEF SessionInv
<1>3. TypeOK'
  BY <1>1, <1>2 DEF SessionInv, TypeOK
<1>4. CookiesHoldRows' /\ HistoryIsOfFamilies' /\ OneAccountPerEmail'
  BY <1>2 DEF SessionInv, TypeOK, CookiesHoldRows, HistoryIsOfFamilies, OneAccountPerEmail
<1>5. CallsHoldRows'
  <2> SUFFICES ASSUME NEW d \in Calls, d # c PROVE HoldsRows(d)'
    BY DEF CallsHoldRows
  <2>1. call'[d] = call[d] /\ HoldsRows(d) /\ call[d] \in Call
    BY <1>1 DEF SessionInv, CallsHoldRows, TypeOK
  <2> QED
    BY <1>2, <2>1, NoneAssumption DEF HoldsRows, NewSession, Presents, InFamily, Call
<1>6. SessionsOrderly'
  <2> SUFFICES ASSUME NEW f \in Tokens \ raced', f # k.family, f \notin ended' \ ended
               PROVE  Orderly(f)'
    BY DEF SessionsOrderly
  <2>1. InFlight(f)' \subseteq InFlight(f) /\ \A d \in InFlight(f)' : call'[d] = call[d]
    BY <1>1 DEF InFlight
  <2>2. LiveIn(f)' \subseteq LiveIn(f)
    BY <1>2 DEF LiveIn, Family
  <2>3. Orderly(f)
    BY DEF SessionInv, SessionsOrderly
  <2> QED
    BY <2>1, <2>2, <2>3, StaysOrderly
<1> QED
  BY <1>2, <1>3, <1>4, <1>5, <1>6 DEF SessionInv

(* The session of call c, when c is all that is in flight in it and is     *)
(* past neither the check nor the revocation of its exchange.              *)
LEMMA AlreadyInFlight ==
  ASSUME SessionInv, NEW c \in Calls, ~Idle(c), call[c].family \in Tokens \ raced
  PROVE  /\ Orderly(call[c].family)
         /\ InFlight(call[c].family) = {c}
BY DEF SessionInv, SessionsOrderly, Orderly, InFlight

----------------------------------------------------------------------------
(* register and login.                                                     *)

LEMMA RegisterFindSession ==
  ASSUME SessionInv, NEW c \in Calls, NEW b \in Browsers, NEW e \in Emails,
         RegisterFind(c, b, e)
  PROVE  SessionInv'
<1> DEFINE k == [NoCall EXCEPT !.pc = "create", !.browser = b, !.email = e]
<1>1. k \in Call /\ k.pc = "create" /\ k.email = e /\ k.token = None /\ k.family = None
  BY DEF Call, NoCall
<1>2. call' = [call EXCEPT ![c] = k] /\ call'[c] = k
  BY DEF RegisterFind, SessionInv, TypeOK
<1>3. HoldsRows(c)'
  BY <1>1, <1>2 DEF HoldsRows, NewSession
<1> HIDE DEF k
<1> QED
  BY <1>1, <1>2, <1>3, CallMoves, NoneAssumption
     DEF RegisterFind, history, SessionInv, TypeOK, OneAccountPerEmail, HistoryIsOfFamilies

LEMMA LoginFindSession ==
  ASSUME SessionInv, NEW c \in Calls, NEW b \in Browsers, NEW a \in users,
         LoginFind(c, b, a)
  PROVE  SessionInv'
<1> DEFINE k == [NoCall EXCEPT !.pc = "issue", !.browser = b, !.email = a.email, !.user = a.id]
<1>1. /\ k \in Call
      /\ k.pc = "issue" /\ k.user \in Users /\ k.token = None /\ k.family = None
  BY DEF Call, NoCall, SessionInv, TypeOK, Account
<1>2. call' = [call EXCEPT ![c] = k] /\ call'[c] = k
  BY DEF LoginFind, SessionInv, TypeOK
<1>3. HoldsRows(c)'
  BY <1>1, <1>2 DEF HoldsRows, NewSession
<1> HIDE DEF k
<1> QED
  BY <1>1, <1>2, <1>3, CallMoves, NoneAssumption
     DEF LoginFind, history, SessionInv, TypeOK, OneAccountPerEmail, HistoryIsOfFamilies

LEMMA CreateUserSession ==
  ASSUME SessionInv, NEW c \in Calls, NEW u \in Users, CreateUser(c, u)
  PROVE  SessionInv'
<1> DEFINE k == [call[c] EXCEPT !.pc = "issue", !.user = u]
<1>1. call[c] \in Call /\ NewSession(c) /\ call[c].email \in Emails
  BY CallKinds DEF CreateUser, SessionInv, CallsHoldRows, HoldsRows
<1>2. /\ k \in Call
      /\ k.pc = "issue" /\ k.user = u /\ k.token = None /\ k.family = None
  BY <1>1 DEF Call, NewSession
<1>3. call' = [call EXCEPT ![c] = k] /\ call'[c] = k
  BY DEF CreateUser, SessionInv, TypeOK
<1>4. HoldsRows(c)'
  BY <1>2, <1>3 DEF HoldsRows, NewSession
<1>5. users' \subseteq Account /\ OneAccountPerEmail'
  BY <1>1 DEF CreateUser, UniqueEmail, SessionInv, TypeOK, OneAccountPerEmail, Account
<1> HIDE DEF k
<1> QED
  BY <1>2, <1>3, <1>4, <1>5, CallMoves, NoneAssumption
     DEF CreateUser, history, SessionInv, TypeOK, HistoryIsOfFamilies

LEMMA CreateConflictSession ==
  ASSUME SessionInv, NEW c \in Calls, CreateConflict(c)
  PROVE  SessionInv'
BY CallEnds DEF CreateConflict, history, SessionInv, TypeOK, CookiesHoldRows, HistoryIsOfFamilies

(* The new row is the only active one of its session.                      *)
LEMMA IssueSession ==
  ASSUME SessionInv, NEW c \in Calls, NEW t \in Tokens, Issue(c, t)
  PROVE  SessionInv'
<1>1. /\ call[c].pc = "issue" /\ ~Idle(c) /\ call[c] \in Call /\ call[c].user \in Users
      /\ NewSession(c) \/ Presents(c)
      /\ tokens[t] = NoToken
  BY CallKinds DEF Issue, SessionInv, CallsHoldRows, HoldsRows
<1>2. PICK f \in Tokens : f = IF call[c].family = None THEN t ELSE call[c].family
  BY <1>1, CallKinds DEF NewSession
<1>3. PICK row \in RefreshToken :
         /\ row = [state |-> "live", user |-> call[c].user, family |-> f]
         /\ row.state = "live" /\ row.user = call[c].user /\ row.family = f
  <2> DEFINE r == [state |-> "live", user |-> call[c].user, family |-> f]
  <2>1. r \in RefreshToken /\ r.state = "live" /\ r.user = call[c].user /\ r.family = f
    BY <1>1 DEF RefreshToken
  <2> QED
    BY <2>1
<1>4. PICK k \in Call :
         /\ k = [call[c] EXCEPT !.pc = "answer", !.issued = t]
         /\ k.pc = "answer" /\ k.issued = t /\ k.user = call[c].user
         /\ k.token = call[c].token /\ k.family = call[c].family
  <2> DEFINE n == [call[c] EXCEPT !.pc = "answer", !.issued = t]
  <2>1. /\ n \in Call /\ n.pc = "answer" /\ n.issued = t /\ n.user = call[c].user
        /\ n.token = call[c].token /\ n.family = call[c].family
    BY <1>1 DEF Call
  <2> QED
    BY <2>1
<1>5. /\ call'[c] = k
      /\ \A d \in Calls \ {c} : call'[d] = call[d]
      /\ call' \in [Calls -> Call]
  BY <1>4 DEF Issue, SessionInv, TypeOK
<1>6. /\ tokens'[t] = row
      /\ \A s \in Tokens \ {t} : tokens'[s] = tokens[s]
      /\ tokens' \in [Tokens -> RefreshToken]
  BY <1>2, <1>3 DEF Issue, SessionInv, TypeOK
<1>7. UNCHANGED <<users, expired, cookie, faults, raced, cut, ended, reused, alarmed>>
  BY DEF Issue, history
<1>8. /\ \A s \in Tokens : tokens[s].family # t
      /\ \A d \in Calls :
           /\ call[d].family # t
           /\ call[d].token # t
           /\ call[d].pc = "answer" => call[d].issued # t
      /\ t \notin Disturbances \cup ended
  BY <1>1, AbsentTokens
<1>9. row # NoToken /\ NoToken.state = "absent"
  BY <1>3 DEF NoToken
<1>10. \/ NewSession(c) /\ f = t
       \/ /\ Presents(c) /\ f = call[c].family /\ f # t /\ Root(f)
          /\ tokens[f].user = call[c].user /\ tokens[f] # NoToken
  <2>1. CASE NewSession(c)
    BY <1>2, <2>1 DEF NewSession
  <2>2. CASE Presents(c)
    <3>1. /\ call[c].token \in Tokens /\ tokens[call[c].token] # NoToken
          /\ tokens[call[c].token].family = call[c].family
          /\ tokens[call[c].token].user = call[c].user
          /\ call[c].family \in Tokens
      BY <1>1, <2>2, CallKinds DEF Presents, InFamily
    <3>2. f = call[c].family /\ f # t
      BY <1>2, <1>8, <3>1, NoneAssumption
    <3>3. Root(f) /\ tokens[f].user = call[c].user
      BY <3>1, <3>2 DEF SessionInv, RowsOfFamilies
    <3>4. tokens[f] # NoToken
      BY <3>3, NoneAssumption DEF NoToken
    <3> QED
      BY <2>2, <3>2, <3>3, <3>4
  <2> QED
    BY <1>1, <2>1, <2>2
<1>11. RowsOfFamilies'
  <2> SUFFICES ASSUME NEW s \in Tokens, tokens'[s] # NoToken
               PROVE  /\ tokens'[s].state = "live" \/ tokens'[s].state = "revoked"
                      /\ tokens'[s].user \in Users
                      /\ tokens'[s].family \in Tokens
                      /\ tokens'[tokens'[s].family].family = tokens'[s].family
                      /\ tokens'[tokens'[s].family].user = tokens'[s].user
    BY DEF RowsOfFamilies
  <2>1. CASE s = t
    BY <1>1, <1>3, <1>6, <1>10, <2>1
  <2>2. CASE s # t
    <3>1. /\ tokens'[s] = tokens[s] /\ tokens[s].family \in Tokens /\ tokens[s].family # t
          /\ tokens'[tokens[s].family] = tokens[tokens[s].family]
      BY <1>6, <1>8, <2>2 DEF SessionInv, RowsOfFamilies
    <3> QED
      BY <2>2, <3>1 DEF SessionInv, RowsOfFamilies
  <2> QED
    BY <2>1, <2>2
<1>12. HoldsRows(c)'
  <2>1. CASE NewSession(c)
    BY <1>1, <1>3, <1>4, <1>5, <1>6, <1>9, <1>10, <2>1, NoneAssumption
       DEF HoldsRows, NewSession, Presents, InFamily
  <2>2. CASE Presents(c)
    <3>0. call[c].token \in Tokens /\ call[c].token # t
      BY <1>8, <2>2, CallKinds
    <3>1. call[c].token \in Tokens \ {t} /\ tokens'[call[c].token] = tokens[call[c].token]
      BY <1>6, <3>0
    <3>2. Presents(c)' /\ ~NewSession(c)'
      BY <1>1, <1>4, <1>5, <2>2, <3>1, NoneAssumption DEF Presents, InFamily, NewSession
    <3>3. f = call[c].family
      BY <1>10, <2>2, NoneAssumption, CallKinds DEF NewSession
    <3> QED
      BY <1>1, <1>3, <1>4, <1>5, <1>6, <1>9, <3>2, <3>3, NoneAssumption DEF HoldsRows, InFamily
  <2> QED
    BY <1>1, <2>1, <2>2
<1>13. CallsHoldRows'
  <2> SUFFICES ASSUME NEW d \in Calls, d # c PROVE HoldsRows(d)'
    BY <1>12 DEF CallsHoldRows
  <2>1. call'[d] = call[d] /\ HoldsRows(d) /\ call[d] \in Call
    BY <1>5 DEF SessionInv, CallsHoldRows, TypeOK
  <2>2. Presents(d) => Presents(d)'
    BY <1>6, <1>8, <2>1, CallKinds DEF Presents, InFamily
  <2>3. call[d].pc = "answer" =>
           call[d].issued \in Tokens \ {t} /\ tokens'[call[d].issued] = tokens[call[d].issued]
    BY <1>6, <1>8, <2>1 DEF HoldsRows
  <2> QED
    BY <2>1, <2>2, <2>3 DEF HoldsRows, NewSession, InFamily
<1>14. TypeOK' /\ OneAccountPerEmail'
  <2>1. TypeOK'
    BY <1>5, <1>6, <1>7 DEF SessionInv, TypeOK
  <2>2. OneAccountPerEmail'
    BY <1>7 DEF SessionInv, OneAccountPerEmail
  <2> QED
    BY <2>1, <2>2
<1>15. CookiesHoldRows' /\ HistoryIsOfFamilies'
  <2>1. CookiesHoldRows'
    BY <1>6, <1>7, <1>9 DEF SessionInv, TypeOK, CookiesHoldRows
  <2>2. ASSUME NEW g \in Disturbances \cup ended PROVE tokens'[g].family = g
    <3>1. g \in Tokens /\ tokens[g].family = g
      BY DEF SessionInv, TypeOK, HistoryIsOfFamilies
    <3>2. g # t
      BY <1>1, <3>1, NoneAssumption DEF NoToken
    <3> QED
      BY <1>6, <3>1, <3>2
  <2>3. HistoryIsOfFamilies'
    BY <1>7, <2>2 DEF HistoryIsOfFamilies
  <2> QED
    BY <2>1, <2>3
<1>16. SessionsOrderly'
  <2> SUFFICES ASSUME NEW g \in Tokens \ raced PROVE Orderly(g)'
    BY <1>7 DEF SessionsOrderly
  <2>1. Orderly(g)
    BY DEF SessionInv, SessionsOrderly
  <2>2. CASE g # f
    <3>1. LiveIn(g)' \subseteq LiveIn(g)
      BY <1>3, <1>6, <2>2 DEF LiveIn, Family
    <3>2. InFlight(g)' = InFlight(g) /\ c \notin InFlight(g)
      <4>1. call[c].family # g /\ call'[c].family # g
        BY <1>4, <1>5, <1>10, <2>2, NoneAssumption DEF NewSession
      <4> QED
        BY <1>5, <4>1 DEF InFlight
    <3> QED
      BY <1>5, <1>7, <2>1, <3>1, <3>2, StaysOrderly DEF InFlight
  <2>3. CASE g = f
    <3>1. LiveIn(g) = {} /\ g \notin ended /\ InFlight(g) \subseteq {c}
      <4>1. CASE NewSession(c) /\ f = t
        BY <1>8, <2>3, <4>1 DEF LiveIn, Family, InFlight
      <4>2. CASE f = call[c].family
        BY <1>1, <2>1, <2>3, <4>2, AlreadyInFlight DEF Orderly
      <4> QED
        BY <1>10, <4>1, <4>2
    <3>2. LiveIn(g)' = {t}
      BY <1>3, <1>6, <2>3, <3>1 DEF LiveIn, Family
    <3>3. InFlight(g)' \subseteq {c}
      BY <1>5, <3>1 DEF InFlight
    <3> QED
      BY <1>4, <1>5, <1>7, <3>1, <3>2, <3>3 DEF Orderly
  <2> QED
    BY <2>2, <2>3
<1> QED
  BY <1>11, <1>13, <1>14, <1>15, <1>16 DEF SessionInv

(* A token that was issued to call c and is set as its browser's cookie.   *)
LEMMA AnswerSession ==
  ASSUME SessionInv, NEW c \in Calls, Answer(c)
  PROVE  SessionInv'
<1>1. call[c].issued \in Tokens /\ tokens[call[c].issued] # NoToken
  BY DEF Answer, SessionInv, CallsHoldRows, HoldsRows, InFamily
<1>2. cookie' \in [Browsers -> Tokens \cup {None}] /\ CookiesHoldRows'
  BY <1>1 DEF Answer, SessionInv, TypeOK, CookiesHoldRows
<1> QED
  BY <1>2, CallEnds DEF Answer, history, SessionInv, TypeOK, HistoryIsOfFamilies

----------------------------------------------------------------------------
(* refresh and logout.                                                     *)

LEMMA SendSession ==
  ASSUME SessionInv, NEW c \in Calls, NEW b \in Browsers, NEW label \in {"find", "logout"},
         Send(c, b, label)
  PROVE  SessionInv'
<1>t. PICK t \in Tokens : t = cookie[b]
  BY DEF Send, SessionInv, TypeOK
<1>1. PICK f \in Tokens : f = tokens[t].family /\ tokens[t] # NoToken /\ Root(f)
  BY <1>t DEF Send, SessionInv, TypeOK, CookiesHoldRows, RowsOfFamilies
<1>2. PICK k \in Call :
         /\ k = [NoCall EXCEPT !.pc = label, !.browser = b, !.token = t, !.family = f]
         /\ k.pc = label /\ k.token = t /\ k.family = f
  <2> DEFINE n == [NoCall EXCEPT !.pc = label, !.browser = b, !.token = t, !.family = f]
  <2>1. n \in Call /\ n.pc = label /\ n.token = t /\ n.family = f
    BY DEF Call, NoCall
  <2> QED
    BY <2>1
<1>3. call' = [call EXCEPT ![c] = k] /\ call'[c] = k /\ \A d \in Calls \ {c} : call'[d] = call[d]
  BY <1>t, <1>1, <1>2 DEF Send, SessionInv, TypeOK
<1>4. HoldsRows(c)'
  BY <1>1, <1>2, <1>3, NoneAssumption DEF HoldsRows, Presents, InFamily, Send
<1>5. /\ raced' = IF InFlight(f) = {} THEN raced ELSE raced \cup {f}
      /\ reused' = IF label = "find" /\ f \in ended THEN reused \cup {f} ELSE reused
  BY <1>t, <1>1 DEF Send
<1>6. ASSUME f \notin raced' PROVE Orderly(f)'
  <2>1. InFlight(f) = {} /\ f \notin raced
    BY <1>5, <1>6
  <2>2. InFlight(f)' = {c}
    BY <1>2, <1>3, <2>1 DEF InFlight
  <2>3. LiveIn(f)' = LiveIn(f) /\ ended' = ended
    BY DEF LiveIn, Family, Send
  <2>4. Orderly(f)
    BY <1>1, <2>1 DEF SessionInv, SessionsOrderly
  <2> QED
    BY <1>2, <1>3, <2>2, <2>3, <2>4 DEF Orderly
<1>7. /\ UNCHANGED <<tokens, expired, cookie, ended, alarmed, users, faults, cut>>
      /\ users' \subseteq Account /\ OneAccountPerEmail' /\ faults' \in Nat
      /\ cut' \subseteq Tokens /\ \A g \in cut' : Root(g)
  BY DEF Send, SessionInv, TypeOK, OneAccountPerEmail, HistoryIsOfFamilies
<1>8. /\ raced \subseteq raced' /\ raced' \subseteq Tokens /\ \A g \in raced' : Root(g)
      /\ reused' \subseteq Tokens /\ \A g \in reused' : Root(g)
  BY <1>1, <1>5 DEF SessionInv, TypeOK, HistoryIsOfFamilies
<1> QED
  BY <1>2, <1>3, <1>4, <1>6, <1>7, <1>8, CallMoves

(* The read of the row: the token it finds active is the only one.         *)
LEMMA RefreshFindSession ==
  ASSUME SessionInv, NEW c \in Calls, RefreshFind(c) \/ RefreshFindRevoked(c)
  PROVE  SessionInv'
<1>t. PICK t \in Tokens : t = call[c].token
  BY CallKinds DEF RefreshFind, RefreshFindRevoked, SessionInv, CallsHoldRows, HoldsRows
<1>1. Presents(c) /\ call[c].pc = "find"
  BY DEF RefreshFind, RefreshFindRevoked, SessionInv, CallsHoldRows, HoldsRows
<1>2. /\ t \in Tokens /\ tokens[t] # NoToken /\ tokens[t].user \in Users
      /\ call[c] \in Call /\ call[c].family \in Tokens /\ call[c].family = tokens[t].family
  BY <1>t, <1>1, CallKinds DEF SessionInv, RowsOfFamilies, Presents, InFamily
<1>3. PICK k \in Call :
         /\ k = [call[c] EXCEPT !.pc = IF Live(t) THEN "rotate" ELSE "alarm",
                                !.user = tokens[t].user]
         /\ k.pc = IF Live(t) THEN "rotate" ELSE "alarm"
         /\ k.token = t /\ k.family = call[c].family /\ k.user = tokens[t].user
  <2> DEFINE n == [call[c] EXCEPT !.pc = IF Live(t) THEN "rotate" ELSE "alarm",
                                 !.user = tokens[t].user]
  <2>1. /\ n \in Call
        /\ n.pc = IF Live(t) THEN "rotate" ELSE "alarm"
        /\ n.token = t /\ n.family = call[c].family /\ n.user = tokens[t].user
    BY <1>t, <1>2 DEF Call
  <2> QED
    BY <2>1
<1>4. /\ call' = [call EXCEPT ![c] = k] /\ call'[c] = k
      /\ \A d \in Calls \ {c} : call'[d] = call[d]
  BY <1>t, <1>3 DEF RefreshFind, RefreshFindRevoked, Exchangeable, SessionInv, TypeOK
<1>5. UNCHANGED <<tokens, users, expired, cookie, faults, raced, cut, ended, reused, alarmed>>
  BY DEF RefreshFind, RefreshFindRevoked, history
<1>6. HoldsRows(c)'
  BY <1>t, <1>1, <1>2, <1>3, <1>4, <1>5, NoneAssumption DEF HoldsRows, Presents, InFamily
<1>7. ASSUME k.family \notin raced PROVE Orderly(k.family)'
  <2>1. PICK f \in Tokens : f = k.family /\ Orderly(f) /\ InFlight(f) = {c}
    BY <1>1, <1>2, <1>3, <1>7, AlreadyInFlight
  <2>2. InFlight(f)' = {c} /\ LiveIn(f)' = LiveIn(f)
    BY <1>3, <1>4, <1>5, <2>1 DEF InFlight, LiveIn, Family
  <2>3. Live(t) => t \in LiveIn(f)
    BY <1>2, <1>3, <2>1 DEF LiveIn, Family
  <2> QED
    BY <1>3, <1>4, <1>5, <2>1, <2>2, <2>3 DEF Orderly
<1>8. /\ users' \subseteq Account /\ OneAccountPerEmail' /\ faults' \in Nat
      /\ cut' \subseteq Tokens /\ \A f \in cut' : Root(f)
      /\ raced \subseteq raced' /\ raced' \subseteq Tokens /\ \A f \in raced' : Root(f)
      /\ reused' \subseteq Tokens /\ \A f \in reused' : Root(f)
  BY <1>5 DEF SessionInv, TypeOK, OneAccountPerEmail, HistoryIsOfFamilies
<1>9. k.pc # "idle" /\ UNCHANGED <<tokens, expired, cookie, ended, alarmed>>
  BY <1>3, <1>5
<1> QED
  BY <1>4, <1>5, <1>6, <1>7, <1>8, <1>9, CallMoves

(* The token of a call past its check is the only active one of a session  *)
(* that was not raced: once it is revoked, none is.                        *)
LEMMA RevokedLast ==
  ASSUME SessionInv, NEW c \in Calls, NEW f \in Tokens \ raced, f = call[c].family,
         NEW t \in Tokens, t = call[c].token, Presents(c), Revoke({t}),
         call[c].pc = "rotate" \/ Live(t)
  PROVE  LiveIn(f)' = {}
<1>1. ~Idle(c) => Orderly(f) /\ InFlight(f) = {c}
  BY AlreadyInFlight
<1>2. LiveIn(f) \subseteq {t}
  <2>1. Orderly(f)
    BY DEF SessionInv, SessionsOrderly
  <2>2. Live(t) => t \in LiveIn(f)
    BY DEF Presents, InFamily, LiveIn, Family
  <2> QED
    BY <1>1, <2>1, <2>2 DEF Orderly
<1>3. \A s \in Tokens :
         /\ tokens'[s].family = tokens[s].family
         /\ tokens'[s].state = "live" <=> tokens[s].state = "live" /\ s # t
  BY RevokeKeeps DEF SessionInv, Presents, InFamily
<1> QED
  BY <1>2, <1>3 DEF LiveIn, Family

LEMMA RotateSession ==
  ASSUME SessionInv, NEW c \in Calls, Rotate(c)
  PROVE  SessionInv'
<1>1. /\ Presents(c) /\ call[c].pc = "rotate" /\ HoldsRows(c)
      /\ call[c] \in Call /\ call[c].token \in Tokens /\ call[c].family \in Tokens
  BY CallKinds DEF Rotate, SessionInv, CallsHoldRows, HoldsRows
<1>2. PICK t \in Tokens, f \in Tokens :
         t = call[c].token /\ f = call[c].family /\ tokens[t] # NoToken
                           /\ tokens[t].family = f /\ tokens[t].user = call[c].user
                           /\ tokens[t].user \in Users
  BY <1>1 DEF Presents, InFamily, SessionInv, RowsOfFamilies
<1>3. PICK k \in Call :
         /\ k = [call[c] EXCEPT !.pc = "issue"]
         /\ k.pc = "issue" /\ k.token = t /\ k.family = f /\ k.user = call[c].user
  <2> DEFINE n == [call[c] EXCEPT !.pc = "issue"]
  <2>1. /\ n \in Call
        /\ n.pc = "issue" /\ n.token = t /\ n.family = f /\ n.user = call[c].user
    BY <1>1, <1>2 DEF Call
  <2> QED
    BY <2>1
<1>4. /\ call' = [call EXCEPT ![c] = k] /\ call'[c] = k
      /\ \A d \in Calls \ {c} : call'[d] = call[d]
  BY <1>3 DEF Rotate, Goto, SessionInv, TypeOK
<1>5. /\ Revoke({t})
      /\ UNCHANGED <<users, expired, cookie, faults, cut, raced, ended, reused, alarmed>>
  BY <1>2 DEF Rotate, history
<1>6. /\ tokens'[t] # NoToken /\ tokens'[t].family = f /\ tokens'[t].user = call[c].user
  BY <1>2, <1>5, RevokeKeeps DEF SessionInv
<1>7. HoldsRows(c)'
  BY <1>2, <1>3, <1>4, <1>6, NoneAssumption DEF HoldsRows, Presents, InFamily
<1>8. ASSUME f \notin raced PROVE Orderly(f)'
  <2>1. Orderly(f) /\ InFlight(f) = {c}
    BY <1>1, <1>2, <1>8, AlreadyInFlight
  <2>2. InFlight(f)' = {c} /\ LiveIn(f)' = {}
    <3>1. LiveIn(f)' = {}
      BY <1>1, <1>2, <1>5, <1>8, RevokedLast
    <3> QED
      BY <1>3, <1>4, <2>1, <3>1 DEF InFlight
  <2>3. f \notin ended
    BY <1>1, <2>1 DEF Orderly
  <2> QED
    BY <1>5, <2>2, <2>3 DEF Orderly
<1>9. /\ raced' \subseteq Tokens /\ \A g \in raced' : Root(g)
      /\ ended' \subseteq Tokens /\ \A g \in ended' : Root(g)
      /\ alarmed' \subseteq Users
  BY <1>5 DEF SessionInv, TypeOK, HistoryIsOfFamilies
<1>10. \A g \in Tokens \ raced' : g = k.family \/ g \in ended' \ ended => Orderly(g)'
  BY <1>3, <1>5, <1>8
<1>11. /\ {t} \in SUBSET Tokens /\ \A s \in {t} : tokens[s] # NoToken
       /\ raced \subseteq raced' /\ ended \subseteq ended'
       /\ UNCHANGED <<users, expired, cookie, faults, cut, reused>>
  BY <1>2, <1>5
<1> QED
  BY <1>4, <1>5, <1>7, <1>9, <1>10, <1>11, CallRevokes

LEMMA LogoutSession ==
  ASSUME SessionInv, NEW c \in Calls, Logout(c)
  PROVE  SessionInv'
<1>1. /\ Presents(c) /\ call[c].pc = "logout" /\ ~Idle(c)
      /\ call[c].token \in Tokens /\ call[c].family \in Tokens
  BY CallKinds DEF Logout, SessionInv, CallsHoldRows, HoldsRows
<1>2. PICK t \in Tokens, f \in Tokens :
         t = call[c].token /\ f = call[c].family /\ tokens[t] # NoToken
                           /\ tokens[t].family = f /\ Root(f)
  BY <1>1 DEF Presents, InFamily, SessionInv, RowsOfFamilies
<1>3. NoCall \in Call /\ NoCall.pc = "idle" /\ NoCall.family = None
  BY DEF NoCall, Call
<1>4. /\ call' = [call EXCEPT ![c] = NoCall] /\ call'[c] = NoCall
      /\ \A d \in Calls \ {c} : call'[d] = call[d]
  BY DEF Logout, EndCall, SessionInv, TypeOK
<1>5. /\ Revoke({t}) /\ ended' = IF Live(t) THEN ended \cup {f} ELSE ended
      /\ UNCHANGED <<users, expired, cookie, faults, cut, raced, reused, alarmed>>
  BY <1>2 DEF Logout
<1>6. HoldsRows(c)'
  BY <1>3, <1>4 DEF HoldsRows
<1>7. ASSUME Live(t), f \notin raced PROVE Orderly(f)'
  <2>1. InFlight(f) = {c}
    BY <1>1, <1>2, <1>7, AlreadyInFlight
  <2>2. InFlight(f)' = {}
    BY <1>3, <1>4, <2>1 DEF InFlight
  <2>3. LiveIn(f)' = {}
    BY <1>1, <1>2, <1>5, <1>7, RevokedLast
  <2> QED
    BY <2>2, <2>3 DEF Orderly
<1>8. /\ raced' \subseteq Tokens /\ \A g \in raced' : Root(g)
      /\ ended' \subseteq Tokens /\ \A g \in ended' : Root(g)
      /\ alarmed' \subseteq Users
  BY <1>2, <1>5 DEF SessionInv, TypeOK, HistoryIsOfFamilies
<1>9. \A g \in Tokens \ raced' : g = NoCall.family \/ g \in ended' \ ended => Orderly(g)'
  BY <1>3, <1>5, <1>7, NoneAssumption
<1>10. /\ {t} \in SUBSET Tokens /\ \A s \in {t} : tokens[s] # NoToken
       /\ raced \subseteq raced' /\ ended \subseteq ended'
       /\ UNCHANGED <<users, expired, cookie, faults, cut, reused>>
  BY <1>2, <1>5
<1> QED
  BY <1>3, <1>4, <1>5, <1>6, <1>8, <1>9, <1>10, CallRevokes

(* Every session of the user is over: no row of theirs is active, and who  *)
(* has a call in flight was raced.                                         *)
LEMMA AlarmSession ==
  ASSUME SessionInv, NEW c \in Calls, Alarm(c)
  PROVE  SessionInv'
<1>1. Presents(c) /\ call[c].pc = "alarm" /\ call[c].token \in Tokens
  BY CallKinds DEF Alarm, SessionInv, CallsHoldRows, HoldsRows
<1>2. PICK u \in Users : u = call[c].user
  BY <1>1 DEF Presents, InFamily, SessionInv, RowsOfFamilies
<1>3. PICK S \in SUBSET Tokens : S = LiveOf(u)
  BY DEF LiveOf
<1>4. /\ Revoke(S)
      /\ ended' = ended \cup FamiliesOf(u)
      /\ raced' = raced \cup {f \in FamiliesOf(u) : InFlight(f) \ {c} # {}}
      /\ alarmed' = alarmed \cup {u}
      /\ UNCHANGED <<users, expired, cookie, faults, cut, reused>>
  BY <1>2, <1>3 DEF Alarm
<1>5. \A t \in S : tokens[t] # NoToken
  BY <1>3 DEF LiveOf, NoToken
<1>6. NoCall \in Call /\ NoCall.pc = "idle" /\ NoCall.family = None
  BY DEF NoCall, Call
<1>7. /\ call' = [call EXCEPT ![c] = NoCall] /\ call'[c] = NoCall
      /\ \A d \in Calls \ {c} : call'[d] = call[d]
  BY DEF Alarm, EndCall, SessionInv, TypeOK
<1>8. HoldsRows(c)'
  BY <1>6, <1>7 DEF HoldsRows
<1>9. ASSUME NEW f \in Tokens \ raced', f = None \/ f \in ended' \ ended PROVE Orderly(f)'
  <2>1. f \in FamiliesOf(u) /\ InFlight(f) \subseteq {c}
    BY <1>4, <1>9, NoneAssumption
  <2>2. InFlight(f)' = {}
    BY <1>6, <1>7, <2>1 DEF InFlight
  <2>3. \A t \in Tokens : tokens[t].family = f => tokens[t].user = u
    BY <2>1, NoneAssumption DEF FamiliesOf, SessionInv, RowsOfFamilies, NoToken
  <2>4. \A t \in Tokens :
           /\ tokens'[t].family = tokens[t].family
           /\ tokens'[t].state = "live" <=> tokens[t].state = "live" /\ t \notin S
    BY <1>4, <1>5, RevokeKeeps DEF SessionInv
  <2>5. LiveIn(f)' = {}
    BY <1>3, <2>3, <2>4 DEF LiveIn, Family, LiveOf
  <2> QED
    BY <2>2, <2>5 DEF Orderly
<1>10. /\ raced \subseteq raced' /\ raced' \subseteq Tokens /\ \A f \in raced' : Root(f)
       /\ ended \subseteq ended' /\ ended' \subseteq Tokens /\ \A f \in ended' : Root(f)
       /\ alarmed' \subseteq Users
  BY <1>4 DEF FamiliesOf, SessionInv, TypeOK, HistoryIsOfFamilies
<1>11. \A f \in Tokens \ raced' :
          f = NoCall.family \/ f \in ended' \ ended => Orderly(f)'
  BY <1>6, <1>9
<1> QED
  BY <1>4, <1>5, <1>6, <1>7, <1>8, <1>10, <1>11, CallRevokes

LEMMA RefreshFindExpiredSession ==
  ASSUME SessionInv, NEW c \in Calls, RefreshFindExpired(c)
  PROVE  SessionInv'
BY CallEnds
   DEF RefreshFindExpired, history, SessionInv, TypeOK, CookiesHoldRows, HistoryIsOfFamilies

----------------------------------------------------------------------------
(* Time and faults.                                                        *)

(* What is cut short is a session.                                         *)
LEMMA CutIsOfFamilies ==
  ASSUME SessionInv, NEW c \in Calls, CutShort(c)
  PROVE  cut' \subseteq Tokens /\ \A f \in cut' : Root(f)
<1>1. call[c].family # None => call[c].family \in Tokens /\ Root(call[c].family)
  BY CallKinds DEF SessionInv, RowsOfFamilies, Presents, InFamily, Call
<1> QED
  BY <1>1 DEF CutShort, SessionInv, TypeOK, HistoryIsOfFamilies

LEMMA AbandonSession ==
  ASSUME SessionInv, NEW c \in Calls, Abandon(c)
  PROVE  SessionInv'
<1>1. call[c] \in Call /\ ~Idle(c)
  BY CallKinds DEF Abandon
<1>2. PICK k \in Call :
         /\ k = [call[c] EXCEPT !.browser = None]
         /\ k.pc = call[c].pc /\ k.token = call[c].token /\ k.family = call[c].family
         /\ k.user = call[c].user /\ k.issued = call[c].issued /\ k.email = call[c].email
  <2> DEFINE n == [call[c] EXCEPT !.browser = None]
  <2>1. /\ n \in Call
        /\ n.pc = call[c].pc /\ n.token = call[c].token /\ n.family = call[c].family
        /\ n.user = call[c].user /\ n.issued = call[c].issued /\ n.email = call[c].email
    BY <1>1 DEF Call
  <2> QED
    BY <2>1
<1>3. /\ call' = [call EXCEPT ![c] = k] /\ call'[c] = k
      /\ \A d \in Calls \ {c} : call'[d] = call[d]
  BY <1>2 DEF Abandon, SessionInv, TypeOK
<1>4. UNCHANGED <<users, tokens, expired, cookie, raced, ended, reused, alarmed>>
  BY DEF Abandon
<1>5. HoldsRows(c)'
  BY <1>1, <1>2, <1>3, <1>4
     DEF SessionInv, CallsHoldRows, HoldsRows, Presents, NewSession, InFamily
<1>6. cut' \subseteq Tokens /\ \A f \in cut' : Root(f)
  BY CutIsOfFamilies DEF Abandon
<1>7. ASSUME k.family \in Tokens \ raced PROVE Orderly(k.family)'
  <2>1. PICK f \in Tokens : f = k.family /\ Orderly(f) /\ InFlight(f) = {c}
    BY <1>1, <1>2, <1>7, AlreadyInFlight
  <2>2. InFlight(f)' = {c} /\ LiveIn(f)' = LiveIn(f)
    BY <1>1, <1>2, <1>3, <1>4, <2>1 DEF InFlight, LiveIn, Family
  <2> QED
    BY <1>2, <1>3, <1>4, <2>1, <2>2 DEF Orderly
<1>8. faults' \in Nat
  BY DEF Abandon, SessionInv, TypeOK
<1> QED
  BY <1>1, <1>2, <1>3, <1>4, <1>5, <1>6, <1>7, <1>8, CallMoves
     DEF SessionInv, TypeOK, OneAccountPerEmail, HistoryIsOfFamilies

LEMMA CallFailsSession ==
  ASSUME SessionInv, NEW c \in Calls, CallFails(c)
  PROVE  SessionInv'
<1>1. cut' \subseteq Tokens /\ \A f \in cut' : Root(f)
  BY CutIsOfFamilies DEF CallFails
<1> QED
  BY <1>1, CallEnds DEF CallFails, SessionInv, TypeOK, CookiesHoldRows

LEMMA ExpireSession ==
  ASSUME SessionInv, NEW t \in Tokens, Expire(t)
  PROVE  SessionInv'
<1>1. UNCHANGED <<users, tokens, call, cookie, faults, raced, cut, ended, reused, alarmed>>
  BY DEF Expire, history
<1> QED
  BY <1>1
     DEF Expire, SessionInv, TypeOK, RowsOfFamilies, CallsHoldRows, HoldsRows, NewSession,
         Presents, InFamily, CookiesHoldRows, HistoryIsOfFamilies, OneAccountPerEmail,
         SessionsOrderly, Orderly, InFlight, LiveIn, Family

LEMMA DropCookieSession ==
  ASSUME SessionInv, NEW b \in Browsers, DropCookie(b)
  PROVE  SessionInv'
<1>1. UNCHANGED <<users, tokens, expired, call, faults, raced, cut, ended, reused, alarmed>>
  BY DEF DropCookie, history
<1> QED
  BY <1>1
     DEF DropCookie, SessionInv, TypeOK, RowsOfFamilies, CallsHoldRows, HoldsRows, NewSession,
         Presents, InFamily, CookiesHoldRows, HistoryIsOfFamilies, OneAccountPerEmail,
         SessionsOrderly, Orderly, InFlight, LiveIn, Family

LEMMA SessionInit == Init => SessionInv
BY NoneAssumption, FaultsAssumption
   DEF Init, SessionInv, TypeOK, RowsOfFamilies, CallsHoldRows, HoldsRows, CookiesHoldRows,
       HistoryIsOfFamilies, OneAccountPerEmail, SessionsOrderly, Orderly, InFlight, LiveIn,
       Family, NoToken, NoCall, RefreshToken, Call

LEMMA SessionStep == SessionInv /\ [Next]_vars => SessionInv'
<1> SUFFICES ASSUME SessionInv, [Next]_vars PROVE SessionInv'
  OBVIOUS
<1>1. ASSUME NEW c \in Calls, NEW b \in Browsers, NEW e \in Emails, RegisterFind(c, b, e)
      PROVE  SessionInv'
  BY <1>1, RegisterFindSession
<1>2. ASSUME NEW c \in Calls, NEW b \in Browsers, NEW a \in users, LoginFind(c, b, a)
      PROVE  SessionInv'
  BY <1>2, LoginFindSession
<1>3. ASSUME NEW c \in Calls, NEW b \in Browsers, SendRefresh(c, b) \/ SendLogout(c, b)
      PROVE  SessionInv'
  BY <1>3, SendSession DEF SendRefresh, SendLogout
<1>4. ASSUME NEW c \in Calls, Step(c) PROVE SessionInv'
  BY <1>4, CreateUserSession, CreateConflictSession, IssueSession, AnswerSession,
     RefreshFindSession, RefreshFindExpiredSession, RotateSession, AlarmSession, LogoutSession
     DEF Step
<1>5. ASSUME NEW c \in Calls, Abandon(c) \/ CallFails(c) PROVE SessionInv'
  BY <1>5, AbandonSession, CallFailsSession
<1>6. ASSUME NEW t \in Tokens, Expire(t) PROVE SessionInv'
  BY <1>6, ExpireSession
<1>7. ASSUME NEW b \in Browsers, DropCookie(b) PROVE SessionInv'
  BY <1>7, DropCookieSession
<1>8. CASE UNCHANGED vars
  BY <1>8
     DEF vars, history, SessionInv, TypeOK, RowsOfFamilies, CallsHoldRows, HoldsRows,
         NewSession, Presents, InFamily, CookiesHoldRows, HistoryIsOfFamilies,
         OneAccountPerEmail, SessionsOrderly, Orderly, InFlight, LiveIn, Family
<1> QED
  BY <1>1, <1>2, <1>3, <1>4, <1>5, <1>6, <1>7, <1>8 DEF Next

LEMMA SessionsInvariant == Spec => []SessionInv
BY SessionInit, SessionStep, PTL DEF Spec

----------------------------------------------------------------------------
(* A dead session stays so in a step that changes no row of it to active,  *)
(* and brings none of its calls past the check.                            *)
LEMMA DeadKept ==
  ASSUME NEW f \in Tokens, Dead(f), expired \subseteq expired',
         tokens'[f].family = f,
         \A t \in Tokens : tokens'[t].family = f /\ tokens'[t].state = "live" =>
             tokens[t].family = f /\ tokens[t].state = "live",
         \A c \in Calls : call'[c].family = f /\ call'[c].pc \in {"rotate", "issue"} =>
             call[c].family = f /\ call[c].pc \in {"rotate", "issue"}
  PROVE  Dead(f)'
BY DEF Dead, Family, InFlight

LEMMA DeadStep ==
  ASSUME SessionInv, [Next]_vars, NEW f \in Tokens, Dead(f)
  PROVE  Dead(f)'
<1>1. Root(f) /\ f # None /\ tokens[f] # NoToken /\ call \in [Calls -> Call]
  BY NoneAssumption DEF Dead, NoToken, SessionInv, TypeOK
<1>2. ASSUME NEW c \in Calls, NEW b \in Browsers, NEW e \in Emails, RegisterFind(c, b, e)
      PROVE  Dead(f)'
  BY <1>1, <1>2, DeadKept DEF RegisterFind, NoCall, history
<1>3. ASSUME NEW c \in Calls, NEW b \in Browsers, NEW a \in users, LoginFind(c, b, a)
      PROVE  Dead(f)'
  BY <1>1, <1>3, DeadKept DEF LoginFind, NoCall, history
<1>4. ASSUME NEW c \in Calls, NEW b \in Browsers, SendRefresh(c, b) \/ SendLogout(c, b)
      PROVE  Dead(f)'
  BY <1>1, <1>4, DeadKept, ZenonT(60) DEF SendRefresh, SendLogout, Send, NoCall
<1>5. ASSUME NEW c \in Calls, Step(c) PROVE Dead(f)'
  <2>1. ASSUME NEW u \in Users, CreateUser(c, u) PROVE Dead(f)'
    <3>1. call[c].family = None
      BY <2>1 DEF CreateUser, SessionInv, CallsHoldRows, HoldsRows, NewSession
    <3> QED
      BY <1>1, <2>1, <3>1, DeadKept DEF CreateUser, history, Call
  <2>2. ASSUME CreateConflict(c) \/ Answer(c) \/ RefreshFindExpired(c) PROVE Dead(f)'
    BY <1>1, <2>2, DeadKept
       DEF CreateConflict, Answer, RefreshFindExpired, EndCall, NoCall, history
  <2>3. ASSUME NEW t \in Tokens, Issue(c, t) PROVE Dead(f)'
    <3>1. call[c].family # f
      BY <2>3 DEF Dead, Issue, InFlight
    <3>2. f # t
      BY <1>1, <2>3 DEF Issue
    <3>3. /\ tokens'[t].family # f
          /\ \A s \in Tokens \ {t} : tokens'[s] = tokens[s]
      BY <2>3, <3>1, <3>2 DEF Issue, SessionInv, TypeOK
    <3>4. \A d \in Calls : call'[d].family = f => call'[d] = call[d]
      BY <1>1, <2>3, <3>1 DEF Issue, Call
    <3> QED
      BY <1>1, <2>3, <3>2, <3>3, <3>4, DeadKept DEF Issue, history
  <2>4. ASSUME RefreshFind(c) PROVE Dead(f)'
    <3>1. Presents(c) /\ call[c].token \in Tokens
      BY <2>4, CallKinds DEF RefreshFind, SessionInv, CallsHoldRows, HoldsRows
    <3>2. call[c].family # f
      BY <2>4, <3>1 DEF RefreshFind, Exchangeable, Dead, Family, Presents, InFamily
    <3>3. \A d \in Calls : call'[d].family = f => call'[d] = call[d]
      BY <1>1, <2>4, <3>2 DEF RefreshFind, Call
    <3> QED
      BY <1>1, <2>4, <3>3, DeadKept DEF RefreshFind, history
  <2>5. ASSUME RefreshFindRevoked(c) PROVE Dead(f)'
    BY <1>1, <2>5, DeadKept DEF RefreshFindRevoked, history, Call
  <2>6. ASSUME NEW S \in SUBSET Tokens, Revoke(S), \A t \in S : tokens[t] # NoToken,
               expired' = expired,
               \A d \in Calls :
                  /\ call'[d].family = f => call[d].family = f
                  /\ call'[d].pc \in {"rotate", "issue"} => call[d].pc \in {"rotate", "issue"}
        PROVE  Dead(f)'
    BY <1>1, <2>6, RevokeKeeps, DeadKept DEF SessionInv
  <2>7. ASSUME Rotate(c) \/ Logout(c) PROVE Dead(f)'
    <3>1. call[c].token \in Tokens /\ tokens[call[c].token] # NoToken
      BY <2>7, CallKinds
         DEF Rotate, Logout, SessionInv, CallsHoldRows, HoldsRows, Presents, InFamily
    <3>2. \A d \in Calls :
             /\ call'[d].family = f => call[d].family = f
             /\ call'[d].pc \in {"rotate", "issue"} => call[d].pc \in {"rotate", "issue"}
      BY <1>1, <2>7 DEF Rotate, Logout, Goto, EndCall, NoCall, Call
    <3> QED
      BY <2>6, <2>7, <3>1, <3>2 DEF Rotate, Logout, history
  <2>8. ASSUME Alarm(c) PROVE Dead(f)'
    <3>1. \A t \in LiveOf(call[c].user) : t \in Tokens /\ tokens[t] # NoToken
      BY DEF LiveOf, NoToken
    <3>2. \A d \in Calls :
             /\ call'[d].family = f => call[d].family = f
             /\ call'[d].pc \in {"rotate", "issue"} => call[d].pc \in {"rotate", "issue"}
      BY <1>1, <2>8 DEF Alarm, EndCall, NoCall
    <3> QED
      BY <2>6, <2>8, <3>1, <3>2 DEF Alarm
  <2> QED
    BY <1>5, <2>1, <2>2, <2>3, <2>4, <2>5, <2>7, <2>8 DEF Step
<1>6. ASSUME NEW c \in Calls, Abandon(c) \/ CallFails(c) PROVE Dead(f)'
  BY <1>1, <1>6, DeadKept DEF Abandon, CallFails, EndCall, NoCall, Call
<1>7. ASSUME NEW t \in Tokens, Expire(t) PROVE Dead(f)'
  BY <1>1, <1>7, DeadKept DEF Expire, history
<1>8. ASSUME NEW b \in Browsers, DropCookie(b) PROVE Dead(f)'
  BY <1>1, <1>8, DeadKept DEF DropCookie, history
<1>9. CASE UNCHANGED vars
  BY <1>1, <1>9, DeadKept DEF vars, history
<1> QED
  BY <1>2, <1>3, <1>4, <1>5, <1>6, <1>7, <1>8, <1>9 DEF Next

(* However registrations overlap, an address has one account: the unique   *)
(* column decides, and no other statement inserts into users.              *)
THEOREM AccountsUnique == Spec => []OneAccountPerEmail
BY SessionsInvariant, PTL DEF SessionInv

(* Rotation: a session no two of whose calls overlapped has at most one    *)
(* active token, whichever statement of a refresh failed.                  *)
THEOREM RotationSound == Spec => []OneLivePerFamily
<1>1. SessionInv => OneLivePerFamily
  <2> SUFFICES ASSUME SessionInv, NEW f \in Tokens \ raced
               PROVE  Cardinality(LiveIn(f)) <= 1
    BY DEF OneLivePerFamily
  <2>1. \A s, t \in LiveIn(f) : s = t
    BY DEF SessionInv, SessionsOrderly, Orderly
  <2>2. CASE LiveIn(f) = {}
    BY <2>2, FS_EmptySet
  <2>3. CASE LiveIn(f) # {}
    <3>1. PICK t : LiveIn(f) = {t}
      BY <2>1, <2>3
    <3>2. Cardinality({t}) = 1
      BY FS_Singleton
    <3> QED
      BY <3>1, <3>2
  <2> QED
    BY <2>2, <2>3
<1> QED
  BY <1>1, SessionsInvariant, PTL

(* A session ended by an alarm, or by the logout of its active token,      *)
(* keeps no token, unless its own calls overlapped.                        *)
THEOREM EndIsFinal == Spec => []EndedIsOver
<1>1. SessionInv => EndedIsOver
  BY DEF SessionInv, TypeOK, SessionsOrderly, Orderly, EndedIsOver
<1> QED
  BY <1>1, SessionsInvariant, PTL

(* A session without an active, unexpired token or a refresh past its      *)
(* check never comes back, raced or not.                                   *)
THEOREM DeathIsFinal == Spec => DeadStaysDead
<1>1. SessionInv /\ [Next]_vars => [\A f \in Tokens : Dead(f) => Dead(f)']_vars
  BY DeadStep
<1> QED
  BY <1>1, SessionsInvariant, PTL DEF Spec, DeadStaysDead

----------------------------------------------------------------------------
(* Who has the tokens of a session.  Most steps hand nothing out: they     *)
(* keep the rows' sessions, and let calls and cookies go at most.          *)
HandsNothingOut ==
    /\ \A t \in Tokens :
          /\ tokens'[t].family = tokens[t].family
          /\ tokens'[t] = NoToken <=> tokens[t] = NoToken
    /\ \A d \in Calls : call'[d].pc # "idle" /\ call'[d].family \in Tokens =>
          /\ call[d].pc # "idle"
          /\ call'[d].family = call[d].family
          /\ call'[d].token = call[d].token
          /\ call'[d].browser \in {call[d].browser, None}
          /\ call'[d].browser = None => call[d].browser = None \/ call[d].family \in cut'
    /\ \A d \in Calls : call'[d].pc = "answer" =>
          /\ call[d].pc = "answer"
          /\ call'[d].family = call[d].family
          /\ call'[d].token = call[d].token
          /\ call'[d].issued = call[d].issued
          /\ call'[d].browser \in {call[d].browser, None}
    /\ \A b \in Browsers : cookie'[b] \in {cookie[b], None}
    /\ raced \subseteq raced' /\ cut \subseteq cut'

LEMMA CustodyKept ==
  ASSUME SessionInv, Custody, HandsNothingOut
  PROVE  Custody'
<1>1. \A f \in Tokens : Family(f)' = Family(f)
  BY DEF HandsNothingOut, Family
<1>2. \A f \in Tokens : InFlight(f)' \subseteq InFlight(f)
  BY DEF HandsNothingOut, InFlight
<1>3. \A d \in Calls, f \in Tokens : Answering(d, f)' => Answering(d, f)
  BY DEF HandsNothingOut, Answering, NewSession
<1>4. \A b \in Browsers, f \in Tokens : InFamily(cookie[b], f)' =>
          cookie'[b] = cookie[b] /\ InFamily(cookie[b], f)
  BY DEF HandsNothingOut, InFamily, SessionInv, TypeOK
<1>5. FreshUntilAnswered'
  BY <1>1, <1>2, <1>3, <1>4 DEF Custody, FreshUntilAnswered
<1>6. \A b \in Browsers, f \in Tokens : Holds(b, f)' => Holds(b, f)
  <2> SUFFICES ASSUME NEW b \in Browsers, NEW f \in Tokens, Holds(b, f)' PROVE Holds(b, f)
    OBVIOUS
  <2>1. ASSUME NEW d \in Calls, call'[d].browser = b, d \in InFlight(f)' \/ Answering(d, f)'
        PROVE  Holds(b, f)
    <3>1. call[d].browser = b
      BY <2>1, NoneAssumption DEF HandsNothingOut, InFlight, Answering
    <3> QED
      BY <1>2, <1>3, <2>1, <3>1 DEF Holds
  <2> QED
    BY <1>4, <2>1 DEF Holds
<1>7. OneHolder'
  BY <1>6 DEF Custody, OneHolder
<1>8. CallIsOfCookie'
  <2> SUFFICES ASSUME NEW f \in Tokens \ raced', NEW d \in InFlight(f)'
               PROVE  /\ \A b \in Browsers : InFamily(cookie[b], f)' => cookie'[b] = call'[d].token
                      /\ call'[d].browser = None => f \in cut'
    BY DEF CallIsOfCookie
  <2>1. /\ d \in InFlight(f) /\ f \in Tokens \ raced
        /\ call'[d].token = call[d].token
        /\ call'[d].browser = None => call[d].browser = None \/ f \in cut'
    BY <1>2 DEF HandsNothingOut, InFlight
  <2> QED
    BY <1>4, <2>1 DEF Custody, CallIsOfCookie, HandsNothingOut
<1> QED
  BY <1>5, <1>7, <1>8 DEF Custody

(* What a revocation does to a session and its rows, once more.            *)
LEMMA RevokeHandsNothingOut ==
  ASSUME SessionInv, NEW S \in SUBSET Tokens, Revoke(S), \A t \in S : tokens[t] # NoToken
  PROVE  \A t \in Tokens :
           /\ tokens'[t].family = tokens[t].family
           /\ tokens'[t].user = tokens[t].user
           /\ tokens'[t] = NoToken <=> tokens[t] = NoToken
           /\ tokens'[t].state = "live" <=> tokens[t].state = "live" /\ t \notin S
BY RevokeKeeps DEF SessionInv

LEMMA PresentedRow ==
  ASSUME SessionInv, NEW c \in Calls,
         call[c].pc \in {"find", "rotate", "alarm", "logout"}
  PROVE  /\ Presents(c) /\ ~Idle(c) /\ call[c] \in Call
         /\ call[c].token \in Tokens /\ call[c].family \in Tokens
         /\ tokens[call[c].token] # NoToken
         /\ tokens[call[c].token].family = call[c].family
BY CallKinds DEF SessionInv, CallsHoldRows, HoldsRows, Presents, InFamily

LEMMA LiveRows ==
  ASSUME NEW u \in Users
  PROVE  LiveOf(u) \in SUBSET Tokens /\ \A t \in LiveOf(u) : tokens[t] # NoToken
BY DEF LiveOf, NoToken

LEMMA RegisterFindQuiet ==
  ASSUME SessionInv, NEW c \in Calls, NEW b \in Browsers, NEW e \in Emails,
         RegisterFind(c, b, e)
  PROVE  HandsNothingOut
<1>1. call \in [Calls -> Call]
  BY DEF SessionInv, TypeOK
<1> QED
  BY <1>1, NoneAssumption DEF RegisterFind, NoCall, history, HandsNothingOut

LEMMA LoginFindQuiet ==
  ASSUME SessionInv, NEW c \in Calls, NEW b \in Browsers, NEW a \in users,
         LoginFind(c, b, a)
  PROVE  HandsNothingOut
<1>1. call \in [Calls -> Call]
  BY DEF SessionInv, TypeOK
<1> QED
  BY <1>1, NoneAssumption DEF LoginFind, NoCall, history, HandsNothingOut

LEMMA CreateUserQuiet ==
  ASSUME SessionInv, NEW c \in Calls, NEW u \in Users, CreateUser(c, u)
  PROVE  HandsNothingOut
<1>1. call \in [Calls -> Call] /\ call[c].family = None
  BY DEF CreateUser, SessionInv, TypeOK, CallsHoldRows, HoldsRows, NewSession
<1>2. /\ call'[c].family = None /\ call'[c].pc = "issue"
      /\ \A d \in Calls \ {c} : call'[d] = call[d]
  BY <1>1 DEF CreateUser, Call
<1> QED
  BY <1>1, <1>2, NoneAssumption DEF CreateUser, history, HandsNothingOut

(* A call that ends, with whatever answer, hands nothing out.              *)
LEMMA EndQuiet ==
  ASSUME SessionInv, NEW c \in Calls, EndCall(c), UNCHANGED <<tokens, raced>>, cut \subseteq cut',
         \A b \in Browsers : cookie'[b] \in {cookie[b], None}
  PROVE  HandsNothingOut
BY DEF SessionInv, TypeOK, EndCall, NoCall, HandsNothingOut

(* Nor does one that goes on with what it was sent.                        *)
LEMMA StepQuiet ==
  ASSUME SessionInv, NEW c \in Calls, ~Idle(c), call[c].pc # "answer",
         NEW k \in Call, call' = [call EXCEPT ![c] = k],
         k.pc # "answer", k.family = call[c].family, k.token = call[c].token,
         k.browser = call[c].browser,
         \A t \in Tokens :
            /\ tokens'[t].family = tokens[t].family
            /\ tokens'[t] = NoToken <=> tokens[t] = NoToken,
         UNCHANGED <<cookie, raced, cut>>
  PROVE  HandsNothingOut
BY DEF SessionInv, TypeOK, HandsNothingOut

LEMMA RefreshFindQuiet ==
  ASSUME SessionInv, NEW c \in Calls, RefreshFind(c) \/ RefreshFindRevoked(c)
  PROVE  HandsNothingOut
<1>1. PICK k :
         /\ call' = [call EXCEPT ![c] = k]
         /\ k = [call[c] EXCEPT !.pc = IF Live(call[c].token) THEN "rotate" ELSE "alarm",
                                !.user = tokens[call[c].token].user]
  BY DEF RefreshFind, RefreshFindRevoked, Exchangeable, SessionInv, TypeOK
<1>2. /\ k \in Call /\ k.pc # "answer" /\ k.family = call[c].family
      /\ k.token = call[c].token /\ k.browser = call[c].browser
  BY <1>1, PresentedRow DEF RefreshFind, RefreshFindRevoked, SessionInv, TypeOK, Call
<1> QED
  BY <1>1, <1>2, StepQuiet DEF RefreshFind, RefreshFindRevoked, history

LEMMA RotateQuiet ==
  ASSUME SessionInv, NEW c \in Calls, Rotate(c)
  PROVE  HandsNothingOut
<1>1. PICK k : call' = [call EXCEPT ![c] = k] /\ k = [call[c] EXCEPT !.pc = "issue"]
  BY DEF Rotate, Goto, SessionInv, TypeOK
<1>2. /\ call[c] \in Call /\ call[c].token \in Tokens /\ tokens[call[c].token] # NoToken
      /\ ~Idle(c) /\ call[c].pc # "answer"
  BY PresentedRow DEF Rotate
<1>3. /\ k \in Call /\ k.pc # "answer" /\ k.family = call[c].family
      /\ k.token = call[c].token /\ k.browser = call[c].browser
  BY <1>1, <1>2 DEF Call
<1>4. Revoke({call[c].token}) /\ UNCHANGED <<cookie, raced, cut>>
  BY DEF Rotate, history
<1>5. \A t \in Tokens :
         /\ tokens'[t].family = tokens[t].family
         /\ tokens'[t] = NoToken <=> tokens[t] = NoToken
  BY <1>2, <1>4, RevokeHandsNothingOut
<1> QED
  BY <1>1, <1>2, <1>3, <1>4, <1>5, StepQuiet

LEMMA LogoutQuiet ==
  ASSUME SessionInv, NEW c \in Calls, Logout(c)
  PROVE  HandsNothingOut
<1>1. call[c].token \in Tokens /\ tokens[call[c].token] # NoToken
  BY PresentedRow DEF Logout
<1>2. Revoke({call[c].token}) /\ EndCall(c) /\ UNCHANGED <<cookie, raced, cut>>
  BY DEF Logout
<1>3. \A t \in Tokens : /\ tokens'[t].family = tokens[t].family
                        /\ tokens'[t] = NoToken <=> tokens[t] = NoToken
  BY <1>1, <1>2, RevokeHandsNothingOut
<1> QED
  BY <1>2, <1>3 DEF SessionInv, TypeOK, EndCall, NoCall, HandsNothingOut

LEMMA AlarmQuiet ==
  ASSUME SessionInv, NEW c \in Calls, Alarm(c)
  PROVE  HandsNothingOut
<1>1. call[c].user \in Users
  BY PresentedRow DEF Alarm, Presents, SessionInv, RowsOfFamilies
<1>2. /\ Revoke(LiveOf(call[c].user)) /\ EndCall(c)
      /\ UNCHANGED <<cookie, cut>> /\ raced \subseteq raced'
  BY DEF Alarm
<1>3. \A t \in Tokens : /\ tokens'[t].family = tokens[t].family
                        /\ tokens'[t] = NoToken <=> tokens[t] = NoToken
  BY <1>1, <1>2, LiveRows, RevokeHandsNothingOut
<1> QED
  BY <1>2, <1>3 DEF SessionInv, TypeOK, EndCall, NoCall, HandsNothingOut

LEMMA AbandonQuiet ==
  ASSUME SessionInv, NEW c \in Calls, Abandon(c)
  PROVE  HandsNothingOut
<1>1. call \in [Calls -> Call] /\ call[c] \in Call
  BY DEF SessionInv, TypeOK
<1>2. /\ call'[c].pc = call[c].pc /\ call'[c].token = call[c].token
      /\ call'[c].family = call[c].family /\ call'[c].issued = call[c].issued
      /\ call'[c].browser = None
      /\ \A d \in Calls \ {c} : call'[d] = call[d]
  BY <1>1 DEF Abandon, Call
<1>3. cut \subseteq cut' /\ (call[c].family # None => call[c].family \in cut')
  BY DEF Abandon, CutShort
<1> QED
  BY <1>1, <1>2, <1>3, NoneAssumption DEF Abandon, HandsNothingOut

(* A call that is sent joins the session its browser holds.                *)
LEMMA SendCustody ==
  ASSUME SessionInv, Custody, NEW c \in Calls, NEW b \in Browsers,
         NEW label \in {"find", "logout"}, Send(c, b, label)
  PROVE  Custody'
<1>1. PICK t \in Tokens, f \in Tokens :
         t = cookie[b] /\ f = tokens[t].family /\ InFamily(t, f)
  BY NoneAssumption
     DEF Send, SessionInv, TypeOK, CookiesHoldRows, RowsOfFamilies, InFamily
<1>2. /\ call'[c].pc = label /\ call'[c].browser = b /\ call'[c].token = t /\ call'[c].family = f
      /\ \A d \in Calls \ {c} : call'[d] = call[d]
      /\ Idle(c)
  BY <1>1 DEF Send, SessionInv, TypeOK, NoCall
<1>3. /\ UNCHANGED <<tokens, cookie, cut>>
      /\ raced' = IF InFlight(f) = {} THEN raced ELSE raced \cup {f}
  BY <1>1 DEF Send
<1>4. /\ InFlight(f)' = InFlight(f) \cup {c}
      /\ \A g \in Tokens \ {f} : InFlight(g)' = InFlight(g)
      /\ \A g \in Tokens : c \notin InFlight(g) /\ Family(g)' = Family(g)
  BY <1>2, <1>3 DEF InFlight, Family
<1>5. \A d \in Calls, g \in Tokens : Answering(d, g)' <=> Answering(d, g)
  BY <1>2 DEF Answering, NewSession
<1>6. \A a \in Browsers, g \in Tokens : InFamily(cookie[a], g)' <=> InFamily(cookie[a], g)
  BY <1>3 DEF InFamily
<1>7. \A d \in Calls : ~Answering(d, f)
  BY <1>1 DEF Custody, FreshUntilAnswered
<1>8. FreshUntilAnswered'
  BY <1>4, <1>5, <1>6, <1>7 DEF Custody, FreshUntilAnswered
<1>9. \A a \in Browsers, g \in Tokens : Holds(a, g)' => Holds(a, g)
  <2> SUFFICES ASSUME NEW a \in Browsers, NEW g \in Tokens, Holds(a, g)' PROVE Holds(a, g)
    OBVIOUS
  <2>1. Holds(b, f)
    BY <1>1 DEF Holds
  <2>2. ASSUME NEW d \in Calls, call'[d].browser = a, d \in InFlight(g)' \/ Answering(d, g)'
        PROVE  Holds(a, g)
    <3>1. CASE d = c
      <4>1. a = b /\ g = f
        BY <1>2, <1>4, <1>5, <2>2, <3>1 DEF Answering
      <4> QED
        BY <2>1, <4>1
    <3>2. CASE d # c
      BY <1>2, <1>4, <1>5, <2>2, <3>2 DEF Holds
    <3> QED
      BY <3>1, <3>2
  <2> QED
    BY <1>6, <2>2 DEF Holds
<1>10. OneHolder'
  BY <1>9 DEF Custody, OneHolder
<1>11. CallIsOfCookie'
  <2> SUFFICES ASSUME NEW g \in Tokens \ raced', NEW d \in InFlight(g)'
               PROVE  /\ \A a \in Browsers : InFamily(cookie[a], g)' => cookie'[a] = call'[d].token
                      /\ call'[d].browser = None => g \in cut'
    BY DEF CallIsOfCookie
  <2>1. CASE g = f
    <3>1. d = c
      BY <1>3, <1>4, <2>1
    <3>2. ASSUME NEW a \in Browsers, InFamily(cookie[a], f) PROVE cookie[a] = t
      BY <1>1, <3>2 DEF Custody, OneHolder, Holds
    <3> QED
      BY <1>2, <1>3, <1>6, <2>1, <3>1, <3>2, NoneAssumption
  <2>2. CASE g # f
    BY <1>2, <1>3, <1>4, <1>6, <2>2 DEF Custody, CallIsOfCookie, InFlight
  <2> QED
    BY <2>1, <2>2
<1> QED
  BY <1>8, <1>10, <1>11 DEF Custody

(* The new token is nobody's cookie yet; that of a login starts a session  *)
(* nobody has heard of.                                                    *)
LEMMA IssueCustody ==
  ASSUME SessionInv, Custody, NEW c \in Calls, NEW t \in Tokens, Issue(c, t)
  PROVE  Custody'
<1>1. /\ call[c].pc = "issue" /\ call[c] \in Call /\ tokens[t] = NoToken
      /\ NewSession(c) \/ Presents(c)
  BY CallKinds DEF Issue, SessionInv, CallsHoldRows, HoldsRows
<1>2. /\ \A s \in Tokens : tokens[s].family # t
      /\ \A d \in Calls : call[d].family # t /\ (call[d].pc = "answer" => call[d].issued # t)
  BY <1>1, AbsentTokens
<1>3. PICK f \in Tokens : f = IF call[c].family = None THEN t ELSE call[c].family
  BY <1>1, CallKinds DEF NewSession
<1>4. /\ tokens'[t].family = f
      /\ \A s \in Tokens \ {t} : tokens'[s] = tokens[s]
  BY <1>3 DEF Issue, SessionInv, TypeOK
<1>5. /\ call'[c].pc = "answer" /\ call'[c].issued = t /\ call'[c].token = call[c].token
      /\ call'[c].family = call[c].family /\ call'[c].browser = call[c].browser
      /\ \A d \in Calls \ {c} : call'[d] = call[d]
  BY <1>1 DEF Issue, SessionInv, TypeOK, Call
<1>6. UNCHANGED <<cookie, raced, cut>>
  BY DEF Issue, history
<1>7. \A g \in Tokens : InFlight(g)' = InFlight(g)
  BY <1>1, <1>5 DEF InFlight
<1>8. \A a \in Browsers, g \in Tokens : InFamily(cookie[a], g)' <=> InFamily(cookie[a], g)
  <2> TAKE a \in Browsers, g \in Tokens
  <2>1. cookie[a] # None => cookie[a] \in Tokens \ {t}
    BY <1>1 DEF SessionInv, TypeOK, CookiesHoldRows
  <2> QED
    BY <1>4, <1>6, <2>1 DEF InFamily
<1>9. \A d \in Calls, g \in Tokens :
         Answering(d, g)' <=> Answering(d, g) \/ (d = c /\ NewSession(c) /\ g = t)
  BY <1>1, <1>5 DEF Answering, NewSession
<1>10. NewSession(c) => f = t
  BY <1>3 DEF NewSession
<1>11. ~NewSession(c) => f # t /\ c \in InFlight(f)
  BY <1>1, <1>2, <1>3, CallKinds, NoneAssumption DEF InFlight
<1>12. FreshUntilAnswered'
  <2> SUFFICES ASSUME NEW d \in Calls, NEW g \in Tokens, Answering(d, g)'
               PROVE  /\ Family(g)' = {g}
                      /\ InFlight(g)' = {}
                      /\ \A b \in Browsers : ~InFamily(cookie[b], g)'
                      /\ \A e \in Calls : Answering(e, g)' => e = d
    BY DEF FreshUntilAnswered
  <2>1. CASE Answering(d, g)
    <3>1. /\ Family(g) = {g} /\ InFlight(g) = {}
          /\ \A b \in Browsers : ~InFamily(cookie[b], g)
          /\ \A e \in Calls : Answering(e, g) => e = d
      BY <2>1 DEF Custody, FreshUntilAnswered
    <3>2. g # t
      BY <1>2, <2>1 DEF Answering
    <3>3. g # f
      BY <1>10, <1>11, <3>1, <3>2
    <3>4. Family(g)' = {g}
      BY <1>4, <3>1, <3>2, <3>3 DEF Family
    <3> QED
      BY <1>7, <1>8, <1>9, <3>1, <3>2, <3>4
  <2>2. CASE d = c /\ NewSession(c) /\ g = t
    <3>1. Family(t)' = {t}
      BY <1>2, <1>4, <1>10, <2>2 DEF Family
    <3>2. InFlight(t)' = {}
      BY <1>2, <1>7 DEF InFlight
    <3>3. \A b \in Browsers : ~InFamily(cookie[b], t)
      BY <1>2 DEF InFamily, SessionInv, TypeOK
    <3>4. \A e \in Calls : ~Answering(e, t)
      BY <1>2 DEF Answering
    <3> QED
      BY <1>8, <1>9, <2>2, <3>1, <3>2, <3>3, <3>4
  <2> QED
    BY <1>9, <2>1, <2>2
<1>13. OneHolder'
  <2> SUFFICES ASSUME NEW g \in Tokens, NEW a \in Browsers, NEW b \in Browsers,
                      Holds(a, g)', Holds(b, g)'
               PROVE  a = b
    BY DEF OneHolder
  <2>1. CASE g = t /\ NewSession(c)
    <3>1. /\ \A x \in Browsers : ~InFamily(cookie[x], t)
          /\ InFlight(t) = {} /\ \A e \in Calls : ~Answering(e, t)
      BY <1>2 DEF InFamily, SessionInv, TypeOK, InFlight, Answering
    <3>2. \A x \in Browsers : Holds(x, t)' => x = call'[c].browser
      BY <1>7, <1>8, <1>9, <3>1 DEF Holds
    <3> QED
      BY <2>1, <3>2
  <2>2. CASE ~(g = t /\ NewSession(c))
    <3>1. \A x \in Browsers : Holds(x, g)' => Holds(x, g)
      BY <1>5, <1>7, <1>8, <1>9, <2>2 DEF Holds
    <3> QED
      BY <3>1 DEF Custody, OneHolder
  <2> QED
    BY <2>1, <2>2
<1>14. CallIsOfCookie'
  BY <1>5, <1>6, <1>7, <1>8 DEF Custody, CallIsOfCookie, InFlight
<1> QED
  BY <1>12, <1>13, <1>14 DEF Custody

(* The browser that gets the answer held the session already.              *)
LEMMA AnswerCustody ==
  ASSUME SessionInv, Custody, NEW c \in Calls, Answer(c)
  PROVE  Custody'
<1>1. /\ call[c].pc = "answer" /\ ~Idle(c)
      /\ NewSession(c) \/ Presents(c)
      /\ call[c].issued \in Tokens /\ call[c] \in Call
  BY CallKinds DEF Answer, SessionInv, CallsHoldRows, HoldsRows
<1>2. PICK f \in Tokens :
         /\ InFamily(call[c].issued, f)
         /\ \/ NewSession(c) /\ f = call[c].issued /\ Answering(c, f)
            \/ ~NewSession(c) /\ f = call[c].family /\ c \in InFlight(f)
  <2>1. InFamily(call[c].issued, IF NewSession(c) THEN call[c].issued ELSE call[c].family)
    BY <1>1 DEF SessionInv, CallsHoldRows, HoldsRows
  <2>2. CASE NewSession(c)
    <3>1. Answering(c, call[c].issued)
      BY <1>1, <2>2 DEF Answering
    <3> QED
      BY <1>1, <2>1, <2>2, <3>1
  <2>3. CASE ~NewSession(c)
    <3>1. call[c].family \in Tokens
      BY <1>1, <2>3, CallKinds
    <3>2. c \in InFlight(call[c].family)
      BY <1>1 DEF InFlight
    <3> QED
      BY <2>1, <2>3, <3>1, <3>2
  <2> QED
    BY <2>2, <2>3
<1>3. /\ call'[c] = NoCall /\ NoCall.pc = "idle"
      /\ \A d \in Calls \ {c} : call'[d] = call[d]
      /\ UNCHANGED <<tokens, raced, cut>>
  BY DEF Answer, EndCall, SessionInv, TypeOK, NoCall, history
<1>4. \A a \in Browsers :
         cookie'[a] = IF a = call[c].browser THEN call[c].issued ELSE cookie[a]
  BY NoneAssumption DEF Answer, SessionInv, TypeOK
<1>5. \A g \in Tokens : InFlight(g)' = InFlight(g) \ {c} /\ Family(g)' = Family(g)
  BY <1>3 DEF InFlight, Family
<1>6. \A d \in Calls, g \in Tokens : Answering(d, g)' <=> Answering(d, g) /\ d # c
  BY <1>3 DEF Answering, NewSession
<1>7. \A a \in Browsers, g \in Tokens : InFamily(cookie[a], g)' =>
          \/ InFamily(cookie[a], g) /\ cookie'[a] = cookie[a]
          \/ a = call[c].browser /\ g = f
  BY <1>2, <1>3, <1>4 DEF InFamily
<1>8. \A d \in Calls : ~Answering(d, f)'
  BY <1>2, <1>6 DEF Custody, FreshUntilAnswered
<1>9. FreshUntilAnswered'
  BY <1>5, <1>6, <1>7, <1>8 DEF Custody, FreshUntilAnswered
<1>10. \A a \in Browsers, g \in Tokens : Holds(a, g)' => Holds(a, g)
  <2> TAKE a \in Browsers, g \in Tokens
  <2>1. Holds(call[c].browser, f)
    BY <1>2 DEF Holds
  <2>2. ASSUME NEW d \in Calls, call'[d].browser = a, d \in InFlight(g)' \/ Answering(d, g)'
        PROVE  Holds(a, g)
    BY <1>3, <1>5, <1>6, <2>2 DEF Holds
  <2> QED
    BY <1>7, <2>1, <2>2 DEF Holds
<1>11. OneHolder'
  BY <1>10 DEF Custody, OneHolder
<1>12. CallIsOfCookie'
  <2> SUFFICES ASSUME NEW g \in Tokens \ raced, NEW d \in InFlight(g)'
               PROVE  /\ \A a \in Browsers : InFamily(cookie[a], g)' => cookie'[a] = call'[d].token
                      /\ call'[d].browser = None => g \in cut'
    BY <1>3 DEF CallIsOfCookie
  <2>1. d \in InFlight(g) /\ d # c /\ call'[d] = call[d]
    BY <1>3, <1>5 DEF InFlight
  <2>2. g # f
    <3>1. \A x, y \in InFlight(g) : x = y
      BY DEF SessionInv, SessionsOrderly, Orderly
    <3> QED
      BY <1>2, <2>1, <3>1 DEF Custody, FreshUntilAnswered
  <2> QED
    BY <1>3, <1>7, <2>1, <2>2 DEF Custody, CallIsOfCookie
<1> QED
  BY <1>9, <1>11, <1>12 DEF Custody

LEMMA CustodyStep ==
  ASSUME SessionInv, Custody, [Next]_vars
  PROVE  Custody'
<1>1. ASSUME NEW c \in Calls, NEW b \in Browsers, NEW e \in Emails, RegisterFind(c, b, e)
      PROVE  Custody'
  BY <1>1, RegisterFindQuiet, CustodyKept
<1>2. ASSUME NEW c \in Calls, NEW b \in Browsers, NEW a \in users, LoginFind(c, b, a)
      PROVE  Custody'
  BY <1>2, LoginFindQuiet, CustodyKept
<1>3. ASSUME NEW c \in Calls, NEW b \in Browsers, SendRefresh(c, b) \/ SendLogout(c, b)
      PROVE  Custody'
  BY <1>3, SendCustody DEF SendRefresh, SendLogout
<1>4. ASSUME NEW c \in Calls, Step(c) PROVE Custody'
  <2>1. ASSUME CreateConflict(c) \/ RefreshFindExpired(c) PROVE Custody'
    BY <2>1, EndQuiet, CustodyKept DEF CreateConflict, RefreshFindExpired, history
  <2> QED
    BY <1>4, <2>1, CreateUserQuiet, RefreshFindQuiet, RotateQuiet, LogoutQuiet, AlarmQuiet,
       CustodyKept, IssueCustody, AnswerCustody DEF Step
<1>5. ASSUME NEW c \in Calls, Abandon(c) PROVE Custody'
  BY <1>5, AbandonQuiet, CustodyKept
<1>6. ASSUME NEW c \in Calls, CallFails(c) PROVE Custody'
  BY <1>6, EndQuiet, CustodyKept DEF CallFails, CutShort
<1>7. ASSUME NEW t \in Tokens, Expire(t) PROVE Custody'
  BY <1>7, CustodyKept DEF Expire, history, HandsNothingOut
<1>8. ASSUME NEW b \in Browsers, DropCookie(b) PROVE Custody'
  BY <1>8, CustodyKept DEF DropCookie, history, HandsNothingOut, SessionInv, TypeOK
<1>9. CASE UNCHANGED vars
  BY <1>9, CustodyKept DEF vars, history, HandsNothingOut
<1> QED
  BY <1>1, <1>2, <1>3, <1>4, <1>5, <1>6, <1>7, <1>8, <1>9 DEF Next

----------------------------------------------------------------------------
(* No step forgets a row's session and user, or what became of a session.  *)
Remembers ==
    /\ RowsKept
    /\ raced \subseteq raced' /\ cut \subseteq cut'
    /\ reused \subseteq reused' /\ ended \subseteq ended'

LEMMA StepRemembers ==
  ASSUME SessionInv, [Next]_vars
  PROVE  Remembers
<1>1. ASSUME NEW c \in Calls, Step(c) PROVE Remembers
  <2>1. ASSUME NEW t \in Tokens, Issue(c, t) PROVE Remembers
    BY <2>1 DEF Issue, history, Remembers, RowsKept
  <2>2. ASSUME Rotate(c) \/ Logout(c) PROVE Remembers
    <3>1. call[c].token \in Tokens /\ tokens[call[c].token] # NoToken
      BY <2>2, PresentedRow DEF Rotate, Logout
    <3>2. /\ Revoke({call[c].token}) /\ UNCHANGED <<raced, cut, reused>>
          /\ ended \subseteq ended'
      BY <2>2 DEF Rotate, Logout, history
    <3> QED
      BY <3>1, <3>2, RevokeKeeps DEF SessionInv, Remembers
  <2>3. ASSUME Alarm(c) PROVE Remembers
    <3>1. call[c].user \in Users
      BY <2>3, PresentedRow DEF Alarm, Presents, SessionInv, RowsOfFamilies
    <3>2. RowsKept
      BY <2>3, <3>1, LiveRows, RevokeKeeps DEF SessionInv, Alarm
    <3> QED
      BY <2>3, <3>2 DEF Alarm, Remembers
  <2> QED
    BY <1>1, <2>1, <2>2, <2>3
       DEF Step, CreateUser, CreateConflict, Answer, RefreshFind, RefreshFindRevoked,
           RefreshFindExpired, history, Remembers, RowsKept
<1>2. ASSUME NEW c \in Calls, NEW b \in Browsers, SendRefresh(c, b) \/ SendLogout(c, b)
      PROVE  Remembers
  BY <1>2 DEF SendRefresh, SendLogout, Send, Remembers, RowsKept
<1>3. ASSUME NEW c \in Calls, Abandon(c) \/ CallFails(c) PROVE Remembers
  BY <1>3 DEF Abandon, CallFails, CutShort, Remembers, RowsKept
<1> QED
  BY <1>1, <1>2, <1>3
     DEF Next, RegisterFind, LoginFind, Expire, DropCookie, vars, history, Remembers, RowsKept

LEMMA DisturbanceStays ==
  ASSUME SessionInv, Remembers
  PROVE  /\ \A u : Undisturbed(u)' => Undisturbed(u)
         /\ \A t \in Tokens : tokens[t] # NoToken =>
               tokens'[t] # NoToken /\ tokens'[t].user = tokens[t].user
                                   /\ tokens'[t].family = tokens[t].family
<1>1. \A r \in Disturbances : r \in Tokens /\ tokens[r] # NoToken
  BY NoneAssumption DEF SessionInv, TypeOK, HistoryIsOfFamilies, NoToken
<1> QED
  BY <1>1 DEF Remembers, RowsKept, Undisturbed

(* A session of an undisturbed user is undisturbed.                        *)
LEMMA UndisturbedFamily ==
  ASSUME SessionInv, NEW t \in Tokens, tokens[t] # NoToken, Undisturbed(tokens[t].user)
  PROVE  tokens[t].family \in Tokens \ Disturbances
BY DEF SessionInv, RowsOfFamilies, Undisturbed

HonestCookie(b) ==
    cookie[b] # None =>
        \/ Live(cookie[b])
        \/ tokens[cookie[b]].family \in ended
        \/ InFlight(tokens[cookie[b]].family) # {}
        \/ ~Undisturbed(tokens[cookie[b]].user)

LEMMA HonestyParts ==
  /\ HonestSession <=> \A b \in Browsers : HonestCookie(b)
  /\ NoFalseAlarm <=> \A u \in alarmed : ~Undisturbed(u)
BY DEF HonestSession, HonestCookie, NoFalseAlarm, Undisturbed, Disturbances

LEMMA HonestyPartsNext ==
  /\ HonestSession' <=> \A b \in Browsers : HonestCookie(b)'
  /\ NoFalseAlarm' <=> \A u \in alarmed' : ~Undisturbed(u)'
BY DEF HonestSession, HonestCookie, NoFalseAlarm, Undisturbed, Disturbances

LEMMA HonestyKept ==
  ASSUME SessionInv, Honesty, Remembers,
         \A u \in alarmed' : u \in alarmed \/ ~Undisturbed(u),
         \A d \in Calls : HonestCall(d)',
         \A b \in Browsers : HonestCookie(b)'
  PROVE  Honesty'
BY HonestyParts, HonestyPartsNext, DisturbanceStays DEF Honesty, CallsAreHonest

(* A call, and a cookie, nothing happened to.                              *)
LEMMA HonestCallKept ==
  ASSUME SessionInv, Honesty, Remembers, NEW d \in Calls,
         /\ call'[d].pc = call[d].pc
         /\ call'[d].token = call[d].token
         /\ call'[d].family = call[d].family
         /\ call'[d].user = call[d].user
         /\ call'[d].issued = call[d].issued,
         ASSUME NEW t \in Tokens, Live(t), Undisturbed(tokens[t].user),
                \/ call[d].pc \in {"find", "logout"} /\ t = call[d].token
                \/ call[d].pc = "answer" /\ t = call[d].issued
         PROVE  tokens'[t].state = "live"
  PROVE  HonestCall(d)'
<1>1. HonestCall(d)
  BY DEF Honesty, CallsAreHonest
<1>2. CASE call[d].pc \in {"find", "logout"}
  <2>1. call[d].token \in Tokens /\ tokens[call[d].token] # NoToken
    BY <1>2, PresentedRow
  <2>2. Undisturbed(tokens[call[d].token].user)' =>
           Undisturbed(tokens[call[d].token].user)
    BY <2>1, DisturbanceStays
  <2>3. CASE call[d].pc = "find"
    BY <1>1, <2>1, <2>2, <2>3 DEF HonestCall
  <2>4. CASE call[d].pc = "logout"
    <3>1. call[d].family \in ended => call[d].family \in ended'
      BY DEF Remembers
    <3> QED
      BY <1>1, <2>1, <2>2, <2>4, <3>1 DEF HonestCall
  <2> QED
    BY <1>2, <2>3, <2>4
<1>3. CASE call[d].pc = "answer"
  <2>1. call[d].issued \in Tokens /\ tokens[call[d].issued].user = call[d].user
    BY <1>3 DEF SessionInv, CallsHoldRows, HoldsRows
  <2> QED
    BY <1>1, <1>3, <2>1, DisturbanceStays DEF HonestCall
<1> QED
  BY <1>1, <1>2, <1>3, DisturbanceStays DEF HonestCall

LEMMA HonestCookieKept ==
  ASSUME SessionInv, Honesty, Remembers, NEW b \in Browsers,
         cookie'[b] = cookie[b],
         ASSUME NEW f \in Tokens, NEW t \in Tokens, cookie[b] = t, f = tokens[t].family,
                Undisturbed(tokens[t].user), Live(t) \/ InFlight(f) # {}
         PROVE  tokens'[t].state = "live" \/ f \in ended' \/ InFlight(f)' # {}
  PROVE  HonestCookie(b)'
<1> SUFFICES ASSUME cookie[b] # None PROVE HonestCookie(b)'
  BY DEF HonestCookie
<1>1. PICK t \in Tokens : t = cookie[b] /\ tokens[t] # NoToken
  BY DEF SessionInv, TypeOK, CookiesHoldRows
<1>2. PICK f \in Tokens : f = tokens[t].family
  BY <1>1 DEF SessionInv, RowsOfFamilies
<1>3. tokens'[t].family = f /\ tokens'[t].user = tokens[t].user
  BY <1>1, <1>2, DisturbanceStays
<1>4. Undisturbed(tokens[t].user) => Live(t) \/ f \in ended' \/ InFlight(f) # {}
  BY <1>1, <1>2, HonestyParts DEF Honesty, HonestCookie, Remembers
<1> QED
  BY <1>1, <1>2, <1>3, <1>4, DisturbanceStays DEF HonestCookie

(* A step that updates no row: calls and cookies it does not touch keep    *)
(* their honesty.                                                          *)
LEMMA StillHonest ==
  ASSUME SessionInv, Honesty, Remembers, UNCHANGED <<tokens, alarmed>>,
         \A d \in Calls :
            \/ HonestCall(d)'
            \/ call'[d].pc \notin {"find", "logout", "answer", "alarm"}
            \/ /\ call'[d].pc = call[d].pc
               /\ call'[d].token = call[d].token
               /\ call'[d].family = call[d].family
               /\ call'[d].user = call[d].user
               /\ call'[d].issued = call[d].issued,
         \A b \in Browsers :
            \/ HonestCookie(b)'
            \/ cookie'[b] = None
            \/ /\ cookie'[b] = cookie[b]
               /\ \A f \in Tokens : f = tokens[cookie[b]].family /\ InFlight(f) # {} =>
                                      InFlight(f)' # {}
  PROVE  Honesty'
<1>1. ASSUME NEW d \in Calls PROVE HonestCall(d)'
  <2>1. CASE call'[d].pc \notin {"find", "logout", "answer", "alarm"}
    BY <2>1 DEF HonestCall
  <2>2. CASE /\ call'[d].pc = call[d].pc
             /\ call'[d].token = call[d].token
             /\ call'[d].family = call[d].family
             /\ call'[d].user = call[d].user
             /\ call'[d].issued = call[d].issued
    BY <2>2, HonestCallKept
  <2> QED
    BY <2>1, <2>2
<1>2. ASSUME NEW b \in Browsers PROVE HonestCookie(b)'
  <2>1. CASE cookie'[b] = None
    BY <2>1 DEF HonestCookie
  <2>2. CASE /\ cookie'[b] = cookie[b]
             /\ \A f \in Tokens : f = tokens[cookie[b]].family /\ InFlight(f) # {} =>
                                    InFlight(f)' # {}
    BY <2>2, HonestCookieKept
  <2> QED
    BY <2>1, <2>2
<1> QED
  BY <1>1, <1>2, HonestyKept

(* The browser of the only call of an undisturbed session has the cookie   *)
(* the call was sent with, and nobody else has one of this session.        *)
LEMMA OnlyCookie ==
  ASSUME SessionInv, Custody, NEW c \in Calls, ~Idle(c), NEW b \in Browsers,
         NEW t \in Tokens, cookie[b] = t, tokens[t].family = call[c].family,
         Undisturbed(tokens[t].user), tokens[t] # NoToken
  PROVE  /\ t = call[c].token
         /\ b = call[c].browser
<1>1. PICK f \in Tokens \ Disturbances : f = tokens[t].family
  BY UndisturbedFamily
<1>2. c \in InFlight(f) /\ InFamily(t, f)
  BY <1>1, NoneAssumption DEF InFlight, InFamily
<1>3. t = call[c].token /\ call[c].browser # None
  BY <1>1, <1>2 DEF Custody, CallIsOfCookie
<1>4. call[c].browser \in Browsers
  BY <1>3 DEF SessionInv, TypeOK, Call
<1>5. Holds(b, f) /\ Holds(call[c].browser, f)
  BY <1>2 DEF Holds
<1> QED
  BY <1>1, <1>3, <1>4, <1>5 DEF Custody, OneHolder

(* A call ends: its session's cookie has to be honest by itself.           *)
LEMMA EndHonest ==
  ASSUME SessionInv, Custody, Honesty, Remembers, NEW c \in Calls, EndCall(c), ~Idle(c),
         UNCHANGED <<tokens, alarmed>>,
         \A b \in Browsers :
            \/ HonestCookie(b)'
            \/ cookie'[b] = None
            \/ /\ cookie'[b] = cookie[b]
               /\ \/ call[c].family = None
                  \/ call[c].family \in cut'
                  \/ b # call[c].browser
                  \/ Live(cookie[b])
                  \/ tokens[cookie[b]].family # call[c].family
                  \/ ~Undisturbed(tokens[cookie[b]].user)
  PROVE  Honesty'
<1>1. /\ call'[c].pc = "idle" /\ \A d \in Calls \ {c} : call'[d] = call[d]
      /\ \A f \in Tokens : InFlight(f)' = InFlight(f) \ {c}
  BY DEF EndCall, SessionInv, TypeOK, NoCall, InFlight
<1>2. \A d \in Calls : HonestCall(d)'
  <2> SUFFICES ASSUME NEW d \in Calls PROVE HonestCall(d)'
    OBVIOUS
  <2>1. CASE d = c
    BY <1>1, <2>1 DEF HonestCall
  <2>2. CASE d # c
    BY <1>1, <2>2, HonestCallKept
  <2> QED
    BY <2>1, <2>2
<1>3. ASSUME NEW b \in Browsers PROVE HonestCookie(b)'
  <2> SUFFICES ASSUME cookie'[b] = cookie[b], cookie[b] # None,
                      \/ call[c].family = None
                      \/ call[c].family \in cut'
                      \/ b # call[c].browser
                      \/ Live(cookie[b])
                      \/ tokens[cookie[b]].family # call[c].family
                      \/ ~Undisturbed(tokens[cookie[b]].user)
               PROVE  HonestCookie(b)'
    BY DEF HonestCookie
  <2>1. PICK t \in Tokens : t = cookie[b] /\ tokens[t] # NoToken
    BY DEF SessionInv, TypeOK, CookiesHoldRows
  <2>2. PICK f \in Tokens : f = tokens[t].family /\ tokens[f].user = tokens[t].user
    BY <2>1 DEF SessionInv, RowsOfFamilies
  <2>3. CASE f # call[c].family
    <3>1. InFlight(f)' = InFlight(f)
      BY <1>1, <2>3 DEF InFlight
    <3> QED
      BY <2>1, <2>2, <3>1, HonestCookieKept
  <2>4. CASE f = call[c].family /\ f \in cut'
    <3>1. ~Undisturbed(tokens[t].user)'
      BY <2>2, <2>4 DEF Undisturbed
    <3> QED
      BY <2>1, <3>1 DEF HonestCookie
  <2>5. CASE f = call[c].family /\ b # call[c].browser
    <3>1. tokens[t].family = call[c].family /\ cookie[b] = t
      BY <2>1, <2>2, <2>5
    <3>2. ~Undisturbed(tokens[t].user)
      BY <2>1, <2>5, <3>1, OnlyCookie
    <3> QED
      BY <2>1, <3>2, DisturbanceStays DEF HonestCookie
  <2>6. CASE Live(t)
    BY <2>1, <2>6 DEF HonestCookie
  <2>7. CASE ~Undisturbed(tokens[t].user)
    BY <2>1, <2>7, DisturbanceStays DEF HonestCookie
  <2> QED
    BY <2>1, <2>2, <2>3, <2>4, <2>5, <2>6, <2>7, NoneAssumption
<1> QED
  BY <1>2, <1>3, HonestyKept

LEMMA AnswerHonest ==
  ASSUME SessionInv, Custody, Honesty, Remembers, NEW c \in Calls, Answer(c)
  PROVE  Honesty'
<1>1. /\ call[c].pc = "answer" /\ ~Idle(c) /\ EndCall(c) /\ UNCHANGED <<tokens, alarmed>>
      /\ \A b \in Browsers :
            cookie'[b] = IF b = call[c].browser THEN call[c].issued ELSE cookie[b]
  BY NoneAssumption DEF Answer, SessionInv, TypeOK, history
<1>2. PICK t \in Tokens :
         t = call[c].issued /\ tokens[t] # NoToken /\ tokens[t].user = call[c].user
  BY <1>1 DEF SessionInv, CallsHoldRows, HoldsRows, InFamily
<1>3. Undisturbed(tokens[t].user) => Live(t)
  BY <1>1, <1>2 DEF Honesty, CallsAreHonest, HonestCall
<1>4. ASSUME NEW b \in Browsers, b = call[c].browser PROVE HonestCookie(b)'
  <2>1. cookie'[b] = t
    BY <1>1, <1>2, <1>4
  <2> QED
    BY <1>1, <1>3, <2>1, DisturbanceStays DEF HonestCookie
<1> QED
  BY <1>1, <1>4, EndHonest

(* The cookie it was sent with has expired, but is active.                 *)
LEMMA RefreshFindExpiredHonest ==
  ASSUME SessionInv, Custody, Honesty, Remembers, NEW c \in Calls, RefreshFindExpired(c)
  PROVE  Honesty'
<1>1. /\ ~Idle(c) /\ EndCall(c) /\ UNCHANGED <<tokens, alarmed, cookie>>
      /\ Live(call[c].token)
  BY DEF RefreshFindExpired, history
<1>2. ASSUME NEW b \in Browsers, cookie[b] # None
      PROVE  \/ Live(cookie[b])
             \/ tokens[cookie[b]].family # call[c].family
             \/ ~Undisturbed(tokens[cookie[b]].user)
  <2>1. PICK t \in Tokens : t = cookie[b] /\ tokens[t] # NoToken
    BY <1>2 DEF SessionInv, TypeOK, CookiesHoldRows
  <2> QED
    BY <1>1, <2>1, OnlyCookie
<1> QED
  BY <1>1, <1>2, EndHonest

(* Registration and login, until a token is issued, concern no session.    *)
LEMMA SignInHonest ==
  ASSUME SessionInv, Honesty, Remembers, NEW c \in Calls,
         Idle(c) \/ call[c].family = None,
         \A d \in Calls \ {c} : call'[d] = call[d],
         call'[c].pc \notin {"find", "logout", "answer", "alarm"},
         UNCHANGED <<tokens, cookie, alarmed>>
  PROVE  Honesty'
<1>1. \A f \in Tokens : InFlight(f) \subseteq InFlight(f)'
  BY NoneAssumption DEF InFlight
<1>2. \A f \in Tokens : InFlight(f) # {} => InFlight(f)' # {}
  BY <1>1
<1> QED
  BY <1>2, StillHonest

LEMMA SendHonest ==
  ASSUME SessionInv, Custody, Honesty, Remembers, NEW c \in Calls, NEW b \in Browsers,
         NEW label \in {"find", "logout"}, Send(c, b, label)
  PROVE  Honesty'
<1>1. PICK t \in Tokens : t = cookie[b] /\ tokens[t] # NoToken
  BY DEF Send, SessionInv, TypeOK, CookiesHoldRows
<1>2. PICK f \in Tokens : f = tokens[t].family /\ tokens[f].user = tokens[t].user
  BY <1>1 DEF SessionInv, RowsOfFamilies
<1>3. /\ call'[c].pc = label /\ call'[c].token = t /\ call'[c].family = f
      /\ \A d \in Calls \ {c} : call'[d] = call[d]
      /\ Idle(c)
      /\ UNCHANGED <<tokens, cookie, alarmed>>
      /\ raced' = IF InFlight(f) = {} THEN raced ELSE raced \cup {f}
      /\ reused' = IF label = "find" /\ f \in ended THEN reused \cup {f} ELSE reused
      /\ ended' = ended
  BY <1>1, <1>2 DEF Send, SessionInv, TypeOK, NoCall
<1>4. \A g \in Tokens : InFlight(g) # {} => InFlight(g)' # {}
  BY <1>3 DEF InFlight
<1>5. HonestCall(c)'
  <2>1. Live(t) \/ f \in ended \/ InFlight(f) # {} \/ ~Undisturbed(tokens[t].user)
    BY <1>1, <1>2, HonestyParts, NoneAssumption DEF Honesty, HonestCookie
  <2>2. InFlight(f) # {} \/ (label = "find" /\ f \in ended) => ~Undisturbed(tokens[t].user)'
    <3>1. f \in Disturbances' => ~Undisturbed(tokens[t].user)'
      BY <1>2, <1>3 DEF Undisturbed
    <3> QED
      BY <1>3, <3>1
  <2> QED
    BY <1>3, <2>1, <2>2, DisturbanceStays DEF HonestCall
<1> QED
  BY <1>3, <1>4, <1>5, StillHonest

LEMMA RefreshFindHonest ==
  ASSUME SessionInv, Honesty, Remembers, NEW c \in Calls, RefreshFind(c) \/ RefreshFindRevoked(c)
  PROVE  Honesty'
<1>1. /\ call[c].pc = "find" /\ call[c] \in Call /\ call \in [Calls -> Call]
      /\ call[c].token \in Tokens
  BY PresentedRow DEF RefreshFind, RefreshFindRevoked, SessionInv, TypeOK
<1>2. /\ call'[c].pc = IF Live(call[c].token) THEN "rotate" ELSE "alarm"
      /\ call'[c].user = tokens[call[c].token].user
      /\ call'[c].family = call[c].family
      /\ \A d \in Calls \ {c} : call'[d] = call[d]
  BY <1>1 DEF RefreshFind, RefreshFindRevoked, Exchangeable, Call
<1>3. UNCHANGED <<tokens, cookie, alarmed, raced, cut>>
  BY DEF RefreshFind, RefreshFindRevoked, history
<1>4. \A f \in Tokens : InFlight(f)' = InFlight(f)
  BY <1>1, <1>2 DEF InFlight
<1>5. HonestCall(c)'
  <2>1. Live(call[c].token) \/ ~Undisturbed(tokens[call[c].token].user)
    BY <1>1 DEF Honesty, CallsAreHonest, HonestCall
  <2> QED
    BY <1>2, <2>1, DisturbanceStays DEF HonestCall
<1> QED
  BY <1>2, <1>3, <1>4, <1>5, StillHonest

(* A statement of call c that takes, of the active rows, at most the one c *)
(* was sent with: the other calls of an undisturbed session lose nothing.  *)
LEMMA OthersHonest ==
  ASSUME SessionInv, Custody, Honesty, Remembers, NEW c \in Calls,
         call[c].pc \in {"rotate", "logout"}, NEW d \in Calls \ {c}, call'[d] = call[d],
         \A t \in Tokens \ {call[c].token} : Live(t) => tokens'[t].state = "live"
  PROVE  HonestCall(d)'
<1>1. PICK s \in Tokens, f \in Tokens :
         /\ s = call[c].token /\ f = call[c].family /\ c \in InFlight(f)
         /\ tokens[s] # NoToken /\ tokens[s].family = f
  BY PresentedRow DEF InFlight
<1>2. ASSUME NEW t \in Tokens, Live(t), Undisturbed(tokens[t].user),
             \/ call[d].pc \in {"find", "logout"} /\ t = call[d].token
             \/ call[d].pc = "answer" /\ t = call[d].issued
      PROVE  tokens'[t].state = "live"
  <2> SUFFICES ASSUME t = s PROVE FALSE
    BY <1>1, <1>2
  <2>1. f \notin raced
    BY <1>1, <1>2, UndisturbedFamily DEF Disturbances
  <2>2. d \notin InFlight(f)
    BY <1>1, <2>1 DEF SessionInv, SessionsOrderly, Orderly
  <2>3. CASE call[d].pc \in {"find", "logout"}
    BY <1>1, <1>2, <2>2, <2>3, PresentedRow DEF InFlight
  <2>4. CASE call[d].pc = "answer"
    <3>1. InFamily(s, IF NewSession(d) THEN s ELSE call[d].family)
      BY <1>2, <2>4 DEF SessionInv, CallsHoldRows, HoldsRows
    <3>2. NewSession(d)
      BY <1>1, <2>2, <2>4, <3>1 DEF InFlight, InFamily
    <3>3. Answering(d, f)
      BY <1>1, <1>2, <2>4, <3>1, <3>2 DEF Answering, InFamily
    <3> QED
      BY <1>1, <3>3 DEF Custody, FreshUntilAnswered
  <2> QED
    BY <1>2, <2>3, <2>4
<1> QED
  BY <1>2, HonestCallKept

LEMMA RotateHonest ==
  ASSUME SessionInv, Custody, Honesty, Remembers, NEW c \in Calls, Rotate(c)
  PROVE  Honesty'
<1>1. /\ call[c].pc = "rotate" /\ call[c] \in Call /\ call \in [Calls -> Call]
      /\ call[c].token \in Tokens /\ tokens[call[c].token] # NoToken
      /\ tokens[call[c].token].family = call[c].family
  BY PresentedRow DEF Rotate, SessionInv, TypeOK
<1>2. /\ call'[c].family = call[c].family /\ call'[c].pc = "issue"
      /\ \A d \in Calls \ {c} : call'[d] = call[d]
      /\ Revoke({call[c].token}) /\ UNCHANGED <<cookie, alarmed>>
  BY <1>1 DEF Rotate, Goto, history, Call
<1>3. \A t \in Tokens \ {call[c].token} : Live(t) => tokens'[t].state = "live"
  BY <1>1, <1>2, RevokeHandsNothingOut
<1>4. \A g \in Tokens : InFlight(g)' = InFlight(g)
  BY <1>1, <1>2 DEF InFlight
<1>5. ASSUME NEW d \in Calls PROVE HonestCall(d)'
  <2>1. CASE d = c
    BY <1>2, <2>1 DEF HonestCall
  <2>2. CASE d # c
    BY <1>1, <1>2, <1>3, <2>2, OthersHonest
  <2> QED
    BY <2>1, <2>2
<1>6. ASSUME NEW b \in Browsers PROVE HonestCookie(b)'
  <2>1. ASSUME NEW g \in Tokens, NEW t \in Tokens, cookie[b] = t, g = tokens[t].family,
               Undisturbed(tokens[t].user), Live(t) \/ InFlight(g) # {}
        PROVE  tokens'[t].state = "live" \/ InFlight(g)' # {}
    <3>1. c \in InFlight(call[c].family)
      BY <1>1 DEF InFlight
    <3> QED
      BY <1>1, <1>3, <1>4, <2>1, <3>1
  <2> QED
    BY <1>2, <2>1, HonestCookieKept
<1> QED
  BY <1>2, <1>5, <1>6, HonestyKept

(* The cookie of a session its only call logs out of is the one the call   *)
(* was sent with, whose session is over: by this call, or already.         *)
LEMMA LogoutHonest ==
  ASSUME SessionInv, Custody, Honesty, Remembers, NEW c \in Calls, Logout(c)
  PROVE  Honesty'
<1>1. /\ call[c].pc = "logout" /\ call \in [Calls -> Call] /\ ~Idle(c)
      /\ call[c].token \in Tokens /\ tokens[call[c].token] # NoToken
      /\ call[c].family \in Tokens /\ tokens[call[c].token].family = call[c].family
  BY PresentedRow DEF Logout, SessionInv, TypeOK
<1>2. /\ call'[c].pc = "idle" /\ \A d \in Calls \ {c} : call'[d] = call[d]
      /\ Revoke({call[c].token}) /\ UNCHANGED <<cookie, alarmed>>
      /\ ended' = IF Live(call[c].token) THEN ended \cup {call[c].family} ELSE ended
  BY <1>1 DEF Logout, EndCall, NoCall
<1>3. \A t \in Tokens \ {call[c].token} : Live(t) => tokens'[t].state = "live"
  BY <1>1, <1>2, RevokeHandsNothingOut
<1>4. \A g \in Tokens \ {call[c].family} : InFlight(g)' = InFlight(g)
  BY <1>1, <1>2 DEF InFlight
<1>5. Undisturbed(tokens[call[c].token].user) => call[c].family \in ended'
  BY <1>1, <1>2 DEF Honesty, CallsAreHonest, HonestCall
<1>6. ASSUME NEW d \in Calls PROVE HonestCall(d)'
  <2>1. CASE d = c
    BY <1>2, <2>1 DEF HonestCall
  <2>2. CASE d # c
    BY <1>1, <1>2, <1>3, <2>2, OthersHonest
  <2> QED
    BY <2>1, <2>2
<1>7. ASSUME NEW b \in Browsers PROVE HonestCookie(b)'
  <2>1. ASSUME NEW g \in Tokens, NEW t \in Tokens, cookie[b] = t, g = tokens[t].family,
               Undisturbed(tokens[t].user), Live(t) \/ InFlight(g) # {}
        PROVE  tokens'[t].state = "live" \/ g \in ended' \/ InFlight(g)' # {}
    <3>1. tokens[t] # NoToken
      BY <2>1, NoneAssumption DEF SessionInv, CookiesHoldRows
    <3>2. CASE g = call[c].family
      <4>1. tokens[t].family = call[c].family
        BY <2>1, <3>2
      <4>2. t = call[c].token
        BY <1>1, <2>1, <3>1, <4>1, OnlyCookie
      <4> QED
        BY <1>5, <2>1, <3>2, <4>2
    <3>3. CASE g # call[c].family
      BY <1>1, <1>3, <1>4, <2>1, <3>3
    <3> QED
      BY <3>2, <3>3
  <2> QED
    BY <1>2, <2>1, HonestCookieKept
<1> QED
  BY <1>2, <1>6, <1>7, HonestyKept

(* Whom an alarm is raised on was disturbed, and nobody else loses a row.  *)
LEMMA AlarmHonest ==
  ASSUME SessionInv, Custody, Honesty, Remembers, NEW c \in Calls, Alarm(c)
  PROVE  Honesty'
<1>1. PICK u \in Users, s \in Tokens, f \in Tokens :
         /\ u = call[c].user /\ f = call[c].family
         /\ tokens[s].user = u /\ tokens[s].family = f /\ tokens[s] # NoToken
         /\ call[c].pc = "alarm"
  BY PresentedRow DEF Alarm, Presents, SessionInv, RowsOfFamilies
<1>2. ~Undisturbed(u)
  BY <1>1 DEF Honesty, CallsAreHonest, HonestCall
<1>3. /\ call'[c].pc = "idle" /\ \A d \in Calls \ {c} : call'[d] = call[d]
      /\ alarmed' = alarmed \cup {u} /\ cookie' = cookie
      /\ Revoke(LiveOf(u))
  BY <1>1 DEF Alarm, EndCall, NoCall, SessionInv, TypeOK
<1>4. \A t \in Tokens : Live(t) /\ tokens[t].user # u => tokens'[t].state = "live"
  BY <1>3, LiveRows, RevokeHandsNothingOut DEF LiveOf
<1>5. \A g \in Tokens \ {f} : InFlight(g)' = InFlight(g)
  BY <1>1, <1>3 DEF InFlight
<1>6. \A t \in Tokens : tokens[t] # NoToken /\ tokens[t].family = f => tokens[t].user = u
  BY <1>1 DEF SessionInv, RowsOfFamilies
<1>7. ASSUME NEW d \in Calls PROVE HonestCall(d)'
  <2>1. CASE d = c
    BY <1>3, <2>1 DEF HonestCall
  <2>2. CASE d # c
    BY <1>2, <1>3, <1>4, <2>2, HonestCallKept
  <2> QED
    BY <2>1, <2>2
<1>8. ASSUME NEW b \in Browsers PROVE HonestCookie(b)'
  <2>1. ASSUME NEW g \in Tokens, NEW t \in Tokens, cookie[b] = t, g = tokens[t].family,
               Undisturbed(tokens[t].user), Live(t) \/ InFlight(g) # {}
        PROVE  tokens'[t].state = "live" \/ InFlight(g)' # {}
    <3>1. tokens[t] # NoToken /\ tokens[t].user # u
      BY <1>2, <2>1, NoneAssumption DEF SessionInv, CookiesHoldRows
    <3>2. g # f
      BY <1>6, <2>1, <3>1
    <3> QED
      BY <1>4, <1>5, <2>1, <3>1, <3>2
  <2> QED
    BY <1>3, <2>1, HonestCookieKept
<1> QED
  BY <1>2, <1>3, <1>7, <1>8, HonestyKept

LEMMA IssueHonest ==
  ASSUME SessionInv, Custody, Honesty, Remembers, NEW c \in Calls, NEW t \in Tokens, Issue(c, t)
  PROVE  Honesty'
<1>1. /\ call[c].pc = "issue" /\ call[c] \in Call /\ call \in [Calls -> Call]
      /\ tokens[t] = NoToken /\ tokens \in [Tokens -> RefreshToken]
  BY DEF Issue, SessionInv, TypeOK
<1>2. /\ tokens'[t].state = "live"
      /\ \A s \in Tokens \ {t} : tokens'[s] = tokens[s]
      /\ call'[c].pc = "answer" /\ call'[c].issued = t /\ call'[c].family = call[c].family
      /\ \A d \in Calls \ {c} : call'[d] = call[d]
      /\ UNCHANGED <<cookie, alarmed>>
  BY <1>1 DEF Issue, history, Call
<1>3. \A g \in Tokens : InFlight(g)' = InFlight(g)
  BY <1>1, <1>2 DEF InFlight
<1>4. ASSUME NEW d \in Calls PROVE HonestCall(d)'
  <2>1. CASE d = c
    BY <1>2, <2>1 DEF HonestCall
  <2>2. CASE d # c
    BY <1>2, <2>2, HonestCallKept
  <2> QED
    BY <2>1, <2>2
<1>5. ASSUME NEW b \in Browsers PROVE HonestCookie(b)'
  <2>1. ASSUME NEW g \in Tokens, NEW s \in Tokens, cookie[b] = s, g = tokens[s].family,
               Undisturbed(tokens[s].user), Live(s) \/ InFlight(g) # {}
        PROVE  tokens'[s].state = "live" \/ InFlight(g)' # {}
    BY <1>2, <1>3, <2>1
  <2> QED
    BY <1>2, <2>1, HonestCookieKept
<1> QED
  BY <1>2, <1>4, <1>5, HonestyKept

LEMMA HonestyStep ==
  ASSUME SessionInv, Custody, Honesty, [Next]_vars
  PROVE  Honesty'
<1>0. Remembers
  BY StepRemembers
<1>1. call \in [Calls -> Call] /\ cookie \in [Browsers -> Tokens \cup {None}]
  BY DEF SessionInv, TypeOK
<1>2. ASSUME NEW c \in Calls, NEW b \in Browsers, NEW e \in Emails, RegisterFind(c, b, e)
      PROVE  Honesty'
  BY <1>0, <1>1, <1>2, SignInHonest DEF RegisterFind, NoCall, history
<1>3. ASSUME NEW c \in Calls, NEW b \in Browsers, NEW a \in users, LoginFind(c, b, a)
      PROVE  Honesty'
  BY <1>0, <1>1, <1>3, SignInHonest DEF LoginFind, NoCall, history
<1>4. ASSUME NEW c \in Calls, NEW b \in Browsers, SendRefresh(c, b) \/ SendLogout(c, b)
      PROVE  Honesty'
  BY <1>0, <1>4, SendHonest DEF SendRefresh, SendLogout
<1>5. ASSUME NEW c \in Calls, Step(c) PROVE Honesty'
  <2>1. ASSUME NEW u \in Users, CreateUser(c, u) PROVE Honesty'
    <3>1. call[c].family = None /\ call[c] \in Call
      BY <1>1, <2>1 DEF CreateUser, SessionInv, CallsHoldRows, HoldsRows, NewSession
    <3>2. call'[c].pc = "issue" /\ \A d \in Calls \ {c} : call'[d] = call[d]
      BY <1>1, <2>1, <3>1 DEF CreateUser, Call
    <3> QED
      BY <1>0, <2>1, <3>1, <3>2, SignInHonest DEF CreateUser, history
  <2>2. ASSUME CreateConflict(c) PROVE Honesty'
    <3>1. call[c].family = None
      BY <2>2 DEF CreateConflict, SessionInv, CallsHoldRows, HoldsRows, NewSession
    <3>2. call'[c].pc = "idle" /\ \A d \in Calls \ {c} : call'[d] = call[d]
      BY <1>1, <2>2 DEF CreateConflict, EndCall, NoCall
    <3> QED
      BY <1>0, <2>2, <3>1, <3>2, SignInHonest DEF CreateConflict, history
  <2> QED
    BY <1>0, <1>5, <2>1, <2>2, IssueHonest, AnswerHonest, RefreshFindHonest,
       RefreshFindExpiredHonest, RotateHonest, LogoutHonest, AlarmHonest DEF Step
<1>6. ASSUME NEW c \in Calls, Abandon(c) PROVE Honesty'
  <2>1. /\ call'[c].pc = call[c].pc /\ call'[c].token = call[c].token
        /\ call'[c].user = call[c].user /\ call'[c].issued = call[c].issued
        /\ call'[c].family = call[c].family
        /\ \A d \in Calls \ {c} : call'[d] = call[d]
        /\ UNCHANGED <<tokens, alarmed, cookie>>
    <3>1. call[c] \in Call
      BY <1>1
    <3> QED
      BY <1>1, <1>6, <3>1 DEF Abandon, Call
  <2>2. \A g \in Tokens : InFlight(g)' = InFlight(g)
    BY <2>1 DEF InFlight
  <2> QED
    BY <1>0, <2>1, <2>2, StillHonest
<1>7. ASSUME NEW c \in Calls, CallFails(c) PROVE Honesty'
  BY <1>0, <1>7, EndHonest DEF CallFails, CutShort
<1>8. ASSUME NEW t \in Tokens, Expire(t) PROVE Honesty'
  <2>1. UNCHANGED <<tokens, call, cookie, alarmed>>
    BY <1>8 DEF Expire, history
  <2>2. \A g \in Tokens : InFlight(g)' = InFlight(g)
    BY <2>1 DEF InFlight
  <2> QED
    BY <1>0, <2>1, <2>2, StillHonest
<1>9. ASSUME NEW b \in Browsers, DropCookie(b) PROVE Honesty'
  <2>1. /\ UNCHANGED <<tokens, call, alarmed>>
        /\ \A a \in Browsers : cookie'[a] \in {None, cookie[a]}
    BY <1>1, <1>9 DEF DropCookie, history
  <2>2. \A g \in Tokens : InFlight(g)' = InFlight(g)
    BY <2>1 DEF InFlight
  <2> QED
    BY <1>0, <2>1, <2>2, StillHonest
<1>10. CASE UNCHANGED vars
  <2>1. UNCHANGED <<tokens, call, cookie, alarmed>>
    BY <1>10 DEF vars, history
  <2>2. \A g \in Tokens : InFlight(g)' = InFlight(g)
    BY <2>1 DEF InFlight
  <2> QED
    BY <1>0, <2>1, <2>2, StillHonest
<1> QED
  BY <1>2, <1>3, <1>4, <1>5, <1>6, <1>7, <1>8, <1>9, <1>10 DEF Next

----------------------------------------------------------------------------
(* The inductive invariant: the tables, the calls and the cookies agree.   *)
THEOREM Invariant == Spec => []IInv
<1>1. Init => IInv
  <2> SUFFICES ASSUME Init PROVE IInv
    OBVIOUS
  <2>1. Custody
    BY NoneAssumption
       DEF Init, Custody, FreshUntilAnswered, OneHolder, CallIsOfCookie, Answering, Holds,
           InFamily, InFlight, NoCall
  <2>2. Honesty
    BY DEF Init, Honesty, CallsAreHonest, HonestCall, NoFalseAlarm, HonestSession, NoCall
  <2> QED
    BY <2>1, <2>2, SessionInit DEF IInv
<1>2. IInv /\ [Next]_vars => IInv'
  BY SessionStep, CustodyStep, HonestyStep DEF IInv
<1> QED
  BY <1>1, <1>2, PTL DEF Spec

(* An alarm is raised on no user whose calls neither overlapped nor were   *)
(* cut short, and whose browsers refreshed no session that had ended.      *)
THEOREM AlarmsAreTrue == Spec => []NoFalseAlarm
BY Invariant, PTL DEF IInv, Honesty

(* Such a user stays logged in: the cookie is one the server accepts, or   *)
(* its successor is on the way, unless it is that of a session they logged *)
(* out of.                                                                 *)
THEOREM SessionsSurvive == Spec => []HonestSession
BY Invariant, PTL DEF IInv, Honesty
============================================================================
