------------------------- MODULE StudentLoginProofs -------------------------
(***************************************************************************)
(* Theorems about StudentLogin, for any number of browsers, devices and    *)
(* handlers.                                                               *)
(*                                                                         *)
(* The argument is about who refers to a device.  A device that is drawn   *)
(* for a new row is named by no handler (NewDevices) and by no cookie      *)
(* (CookiesLive: removing a row kills the cookies that name it), so it has *)
(* no owner; refreshes and answers only move a token between a handler and *)
(* the browser it works for.                                               *)
(***************************************************************************)
EXTENDS StudentLogin, TLAPS

CallState == [at : Stages, by : Browser \cup {Nil}, login : BOOLEAN, tok : Token \cup {Nil}]
CookieState == Token \cup {Dead, Nil}

\* The part of the invariant that is about devices and tokens.
SessionsOK ==
  /\ row \in [Device -> Row \cup {Nil}]
  /\ cookie \in [Browser -> CookieState]
  /\ call \in [Call -> CallState]
  /\ CallsOK /\ OneCreator /\ SingleDevice /\ OneOwner /\ CookiesLive
-----------------------------------------------------------------------------
(* Tokens that are unbound and cookies that are killed. *)

\* An unbound token is a token of the same device.
LEMMA UnbindToken ==
  ASSUME NEW D, NEW t \in Token
  PROVE  Unbind(D, t) \in Token /\ Unbind(D, t).dev = t.dev
BY NilAssumption DEF Unbind, Names, Token

\* Nothing happens to no token.
LEMMA UnbindNil == \A D : Unbind(D, Nil) = Nil
BY DEF Unbind, Names

\* A dead token names no device.
LEMMA DeadNamesNone == \A D \in SUBSET Device : ~Names(Dead, D) /\ Unbind(D, Dead) = Dead
BY LoginAssumption DEF Unbind, Names, Dead

\* Unbinding leaves every handler where it stands, with a token for the device
\* it had one for.
LEMMA CallsUnbound ==
  ASSUME call \in [Call -> CallState], NEW D
  PROVE  /\ UnbindCalls(D) \in [Call -> CallState]
         /\ \A c \in Call :
              /\ UnbindCalls(D)[c].at = call[c].at
              /\ UnbindCalls(D)[c].by = call[c].by
              /\ UnbindCalls(D)[c].login = call[c].login
              /\ UnbindCalls(D)[c].tok = Nil <=> call[c].tok = Nil
              /\ UnbindCalls(D)[c].tok \in Token <=> call[c].tok \in Token
              /\ \A d : Names(UnbindCalls(D)[c].tok, {d}) <=> Names(call[c].tok, {d})
<1> SUFFICES ASSUME NEW c \in Call
             PROVE  /\ UnbindCalls(D)[c] \in CallState
                    /\ UnbindCalls(D)[c].at = call[c].at
                    /\ UnbindCalls(D)[c].by = call[c].by
                    /\ UnbindCalls(D)[c].login = call[c].login
                    /\ UnbindCalls(D)[c].tok = Nil <=> call[c].tok = Nil
                    /\ UnbindCalls(D)[c].tok \in Token <=> call[c].tok \in Token
                    /\ \A d : Names(UnbindCalls(D)[c].tok, {d}) <=> Names(call[c].tok, {d})
  BY DEF UnbindCalls
<1>1. call[c] \in CallState
  OBVIOUS
<1>2. /\ Unbind(D, call[c].tok) = Nil <=> call[c].tok = Nil
      /\ Unbind(D, call[c].tok) \in Token <=> call[c].tok \in Token
      /\ \A d : Names(Unbind(D, call[c].tok), {d}) <=> Names(call[c].tok, {d})
      /\ Unbind(D, call[c].tok) \in Token \cup {Nil}
  <2>1. CASE call[c].tok = Nil
    BY <2>1, UnbindNil, NilAssumption
  <2>2. CASE call[c].tok \in Token
    BY <2>2, UnbindToken, NilAssumption DEF Names
  <2> QED
    BY <1>1, <2>1, <2>2 DEF CallState
<1>3. UnbindCalls(D)[c] = [call[c] EXCEPT !.tok = Unbind(D, call[c].tok)]
  BY DEF UnbindCalls
<1> QED
  BY <1>1, <1>2, <1>3 DEF CallState

\* The same for the cookies.
LEMMA CookiesUnbound ==
  ASSUME cookie \in [Browser -> CookieState], NEW D \in SUBSET Device
  PROVE  /\ UnbindCookies(D) \in [Browser -> CookieState]
         /\ \A b \in Browser : \A d \in Device :
              Names(UnbindCookies(D)[b], {d}) <=> Names(cookie[b], {d})
<1> SUFFICES ASSUME NEW b \in Browser
             PROVE  /\ Unbind(D, cookie[b]) \in CookieState
                    /\ \A d \in Device : Names(Unbind(D, cookie[b]), {d}) <=> Names(cookie[b], {d})
  BY DEF UnbindCookies
<1>1. cookie[b] \in Token \cup {Dead, Nil}
  BY DEF CookieState
<1>2. CASE cookie[b] \in Token
  BY <1>2, UnbindToken, NilAssumption DEF Names, CookieState
<1>3. CASE cookie[b] \in {Dead, Nil}
  BY <1>3, UnbindNil, DeadNamesNone DEF CookieState
<1> QED
  BY <1>1, <1>2, <1>3

\* A cookie that is left names a device that is left.
LEMMA CookiesKilled ==
  ASSUME cookie \in [Browser -> CookieState], NEW D
  PROVE  /\ KillCookies(D) \in [Browser -> CookieState]
         /\ \A b \in Browser : \A d \in Device :
              Names(KillCookies(D)[b], {d}) => Names(cookie[b], {d}) /\ d \notin D
<1> SUFFICES ASSUME NEW b \in Browser
             PROVE  /\ KillCookies(D)[b] \in CookieState
                    /\ \A d \in Device :
                         Names(KillCookies(D)[b], {d}) => Names(cookie[b], {d}) /\ d \notin D
  BY DEF KillCookies
<1>1. KillCookies(D)[b] = IF Names(cookie[b], D) THEN Dead ELSE cookie[b]
  BY DEF KillCookies
<1>2. CASE Names(cookie[b], D)
  BY <1>1, <1>2, LoginAssumption DEF Names, Dead, CookieState
<1>3. CASE ~Names(cookie[b], D)
  BY <1>1, <1>3 DEF Names, CookieState
<1> QED
  BY <1>2, <1>3
-----------------------------------------------------------------------------
(* The parts of the invariant. *)

\* A step after which a device is used by no browser but those that used it
\* before, or by one browser when nobody used it, keeps its owners.
LEMMA OwnersKept ==
  ASSUME OneOwner, role' = role, NEW b0, NEW d0,
         \A b \in Browser : \A d \in Device :
           UsedBy(b, d)' => UsedBy(b, d) \/ (b = b0 /\ d = d0 /\ \A a \in Browser : ~UsedBy(a, d0))
  PROVE  OneOwner'
BY DEF OneOwner

\* What the handlers and the cookies name after a step.
LEMMA UsedAfter ==
  ASSUME NEW b \in Browser, NEW d \in Device, UsedBy(b, d)'
  PROVE  \/ Names(cookie'[b], {d})
         \/ \E c \in Call : call'[c].by = b /\ Names(call'[c].tok, {d})
BY DEF UsedBy, Names

\* A new device is used by no browser.
LEMMA NewUnused ==
  ASSUME CookiesLive, NEW d \in NewDevices, NEW b \in Browser
  PROVE  ~UsedBy(b, d)
BY DEF CookiesLive, NewDevices, UsedBy, Held, Live

\* Ending sessions: the rows D are removed, the handlers keep unbound tokens of
\* them, the cookies die or are cleared.
LEMMA EndKeeps ==
  ASSUME SessionsOK, NEW D, UNCHANGED <<role, overlapped>>,
         RemoveRows(D), call' = UnbindCalls(D),
         cookie' \in [Browser -> CookieState],
         \A b \in Browser : cookie'[b] \in {KillCookies(D)[b], Nil}
  PROVE  SessionsOK'
<1> USE DEF SessionsOK
<1>1. \A d \in Device : row'[d] = IF d \in D THEN Nil ELSE row[d]
  BY DEF RemoveRows
<1>2. row' \in [Device -> Row \cup {Nil}]
  BY DEF RemoveRows
<1>3. call' \in [Call -> CallState]
  BY CallsUnbound
<1>4. CallsOK'
  BY CallsUnbound DEF CallsOK
<1>5. \A d \in Device : d \in Live' => d \in Live /\ row'[d] = row[d]
  BY <1>1 DEF Live
<1>6. Live' \subseteq Device
  BY DEF Live
<1>7. SingleDevice'
  BY <1>5, <1>6 DEF SingleDevice
<1>8. OneCreator'
  BY <1>5, <1>6, CallsUnbound DEF OneCreator
<1>9. \A b \in Browser : \A d \in Device :
        Names(cookie'[b], {d}) => Names(cookie[b], {d}) /\ d \notin D
  BY CookiesKilled DEF Names
<1>10. OneOwner'
  <2>1. \A b \in Browser : \A d \in Device : UsedBy(b, d)' => UsedBy(b, d)
    <3> SUFFICES ASSUME NEW b \in Browser, NEW d \in Device, UsedBy(b, d)' PROVE UsedBy(b, d)
      OBVIOUS
    <3>1. \A c \in Call : call'[c].by = call[c].by
                         /\ (Names(call'[c].tok, {d}) <=> Names(call[c].tok, {d}))
      BY CallsUnbound
    <3> QED
      BY <3>1, <1>9, UsedAfter DEF UsedBy
  <2> QED
    BY <2>1, OwnersKept
<1>11. CookiesLive'
  BY <1>1, <1>9 DEF CookiesLive, Live
<1> QED
  BY <1>2, <1>3, <1>4, <1>7, <1>8, <1>10, <1>11

\* A handler that takes a next stage, without another token, or ends.  Only
\* the step that removes the devices comes to "removed".
LEMMA MoveKeeps ==
  ASSUME SessionsOK, UNCHANGED <<role, row, cookie, overlapped>>,
         NEW c \in Call, NEW k \in CallState, call' = [call EXCEPT ![c] = k],
         k.at # "removed",
         k.at = "verified" => k.tok = Nil,
         k.at \in {"created", "bound"} => k.tok \in Token,
         \A d \in Device : Names(k.tok, {d}) /\ role = "staff" => UsedBy(k.by, d)
  PROVE  SessionsOK'
<1> USE DEF SessionsOK
<1>1. \A o \in Call : call'[o] = IF o = c THEN k ELSE call[o]
  OBVIOUS
<1>2. row' = row /\ cookie' = cookie /\ Live' = Live
  BY DEF Live
<1>3. call' \in [Call -> CallState]
  OBVIOUS
<1>4. CallsOK'
  BY <1>1 DEF CallsOK
<1>5. SingleDevice'
  BY <1>2 DEF SingleDevice
<1>6. OneCreator'
  BY <1>1, <1>2 DEF OneCreator
<1>7. OneOwner'
  <2> SUFFICES ASSUME role = "staff" PROVE OneOwner'
    BY DEF OneOwner
  <2>1. \A b \in Browser : \A d \in Device : UsedBy(b, d)' => UsedBy(b, d)
    <3> SUFFICES ASSUME NEW b \in Browser, NEW d \in Device, UsedBy(b, d)' PROVE UsedBy(b, d)
      OBVIOUS
    <3>1. CASE Names(cookie[b], {d})
      BY <3>1 DEF UsedBy
    <3>2. ASSUME NEW o \in Call, call'[o].by = b, Names(call'[o].tok, {d})
          PROVE  UsedBy(b, d)
      <4>1. CASE o = c
        BY <1>1, <3>2, <4>1
      <4>2. CASE o # c
        BY <1>1, <3>2, <4>2 DEF UsedBy
      <4> QED
        BY <4>1, <4>2
    <3> QED
      BY <1>2, <3>1, <3>2, UsedAfter
  <2> QED
    BY <2>1, OwnersKept
<1>8. CookiesLive'
  BY <1>2 DEF CookiesLive
<1> QED
  BY <1>2, <1>3, <1>4, <1>5, <1>6, <1>7, <1>8

\* A new row for a handler: by a login request after the devices were removed,
\* or by a sign-in.
LEMMA CreateKeeps ==
  ASSUME SessionsOK, UNCHANGED <<role, cookie, overlapped>>,
         NEW c \in Call, NEW d \in NewDevices, NEW r \in Row, NEW k \in CallState,
         row' = [row EXCEPT ![d] = r], call' = [call EXCEPT ![c] = k],
         k.at = "created", k.tok = [dev |-> d, bound |-> FALSE],
         r.via = "request" => call[c].at = "removed"
  PROVE  SessionsOK'
<1> USE DEF SessionsOK
<1>1. \A o \in Call : call'[o] = IF o = c THEN k ELSE call[o]
  OBVIOUS
<1>2. d \in Device /\ k.tok \in Token
  BY DEF NewDevices, Token
<1>3. \A e \in Device : row'[e] = IF e = d THEN r ELSE row[e]
  BY <1>2
<1>4. row' \in [Device -> Row \cup {Nil}] /\ call' \in [Call -> CallState]
  BY <1>2
<1>5. CallsOK'
  BY <1>1, <1>2 DEF CallsOK
<1>6. \A e \in Device : e \in Live' => e = d \/ (e \in Live /\ row'[e] = row[e])
  BY <1>3 DEF Live
<1>7. Live' \subseteq Device
  BY DEF Live
<1>8. SingleDevice' /\ OneCreator'
  <2>1. CASE overlapped
    BY <2>1 DEF SingleDevice, OneCreator
  <2>2. CASE ~overlapped /\ r.via = "request"
    <3>1. \A o \in Call : call'[o].at # "removed"
      BY <1>1, <2>2 DEF OneCreator
    <3>2. \A e \in Live' : e # d => row'[e].via # "request"
      BY <1>6, <1>7, <2>2 DEF OneCreator
    <3> QED
      BY <3>1, <3>2 DEF SingleDevice, OneCreator
  <2>3. CASE ~overlapped /\ r.via # "request"
    <3>1. row'[d].via # "request"
      BY <1>2, <1>3, <2>3
    <3>2. SingleDevice'
      BY <1>6, <1>7, <2>3, <3>1 DEF SingleDevice
    <3>3. OneCreator'
      BY <1>1, <1>6, <1>7, <2>3, <3>1 DEF OneCreator
    <3> QED
      BY <3>2, <3>3
  <2> QED
    BY <2>1, <2>2, <2>3
<1>9. OneOwner'
  <2>1. \A b \in Browser : \A e \in Device :
          UsedBy(b, e)' => UsedBy(b, e) \/ (b = k.by /\ e = d)
    <3> SUFFICES ASSUME NEW b \in Browser, NEW e \in Device, UsedBy(b, e)'
                 PROVE  UsedBy(b, e) \/ (b = k.by /\ e = d)
      OBVIOUS
    <3>1. Names(k.tok, {e}) => e = d
      BY DEF Names
    <3>2. Names(cookie[b], {e}) \/ \E o \in Call : call'[o].by = b /\ Names(call'[o].tok, {e})
      BY UsedAfter
    <3>3. ASSUME NEW o \in Call, call'[o].by = b, Names(call'[o].tok, {e})
          PROVE  (call[o].by = b /\ Names(call[o].tok, {e})) \/ (b = k.by /\ e = d)
      BY <1>1, <3>1, <3>3
    <3> HIDE DEF SessionsOK
    <3> QED
      BY <3>2, <3>3 DEF UsedBy
  <2>2. \A a \in Browser : ~UsedBy(a, d)
    BY NewUnused
  <2>3. OneOwner /\ role' = role
    OBVIOUS
  <2>4. \A b \in Browser : \A e \in Device : UsedBy(b, e)' =>
          UsedBy(b, e) \/ (b = k.by /\ e = d /\ \A a \in Browser : ~UsedBy(a, d))
    BY <2>1, <2>2
  <2> HIDE DEF SessionsOK
  <2> QED
    BY <2>3, <2>4, OwnersKept
<1>10. CookiesLive'
  <2>1. \A e \in Live : e \in Live'
    BY <1>2, <1>3, NilAssumption DEF Live
  <2> QED
    BY <2>1 DEF CookiesLive
<1> QED
  BY <1>4, <1>5, <1>8, <1>9, <1>10

\* A row that stays, for the same kind of login.
LEMMA TouchKeeps ==
  ASSUME SessionsOK, UNCHANGED <<role, overlapped>>,
         NEW d \in Live, NEW r \in Row, row' = [row EXCEPT ![d] = r], r.via = row[d].via,
         cookie' \in [Browser -> CookieState], call' \in [Call -> CallState],
         CallsOK',
         \A c \in Call : call'[c].at = "removed" => call[c].at = "removed",
         \A c \in Call : call'[c].by = call[c].by,
         \A c \in Call : \A e \in Device : Names(call'[c].tok, {e}) <=> Names(call[c].tok, {e}),
         \A b \in Browser : \A e \in Device : Names(cookie'[b], {e}) <=> Names(cookie[b], {e})
  PROVE  SessionsOK'
<1> USE DEF SessionsOK
<1>1. d \in Device /\ row[d] # Nil
  BY DEF Live
<1>2. \A e \in Device : row'[e] = IF e = d THEN r ELSE row[e]
  BY <1>1
<1>3. Live' = Live /\ \A e \in Live : row'[e].via = row[e].via
  BY <1>1, <1>2, NilAssumption DEF Live
<1>4. row' \in [Device -> Row \cup {Nil}]
  BY <1>1
<1>5. SingleDevice'
  BY <1>3 DEF SingleDevice
<1>6. OneCreator'
  BY <1>3 DEF OneCreator
<1>7. OneOwner'
  <2>1. \A b \in Browser : \A e \in Device : UsedBy(b, e)' => UsedBy(b, e)
    BY UsedAfter DEF UsedBy
  <2> QED
    BY <2>1, OwnersKept
<1>8. CookiesLive'
  BY <1>3 DEF CookiesLive
<1> QED
  BY <1>4, <1>5, <1>6, <1>7, <1>8
-----------------------------------------------------------------------------
(* One lemma per action, or per group of actions that do the same to devices. *)

LEMMA InitIInv == Init => IInv
<1> SUFFICES ASSUME Init PROVE IInv
  OBVIOUS
<1>1. \A c \in Call : call[c] = None
  BY DEF Init
<1>2. None \in CallState
  BY DEF None, CallState, Stages
<1>3. Live = {}
  BY DEF Init, Live
<1>4. TypeOK
  <2>1. call \in [Call -> CallState]
    BY <1>1, <1>2 DEF Init
  <2>2. trouble \in 0..MaxTrouble /\ answered \in [Browser -> Nat]
    BY LoginAssumption DEF Init
  <2> QED
    BY <2>1, <2>2 DEF TypeOK, Init, CallState, Statuses
<1>5. CallsOK /\ RequestsOK /\ OneCreator
  BY <1>1 DEF CallsOK, RequestsOK, OneCreator, Init, None
<1>6. SingleDevice
  BY <1>3 DEF SingleDevice
<1>7. OneOwner /\ CookiesLive
  BY <1>1 DEF OneOwner, CookiesLive, UsedBy, Names, Init, None
<1> QED
  BY <1>4, <1>5, <1>6, <1>7 DEF IInv

\* The invariant is the part about devices and tokens, and the rest.
RequestsTyped ==
  /\ role \in {"student", "staff"}
  /\ request \in [Browser -> Statuses]
  /\ answered \in [Browser -> Nat]
  /\ overlapped \in BOOLEAN
  /\ trouble \in 0..MaxTrouble
  /\ RequestsOK

LEMMA Parts == IInv <=> SessionsOK /\ RequestsTyped
BY DEF IInv, TypeOK, SessionsOK, RequestsTyped, CallState, CookieState

LEMMA PartsNext == IInv' <=> SessionsOK' /\ RequestsTyped'
BY DEF IInv, TypeOK, SessionsOK, RequestsTyped, CallState, CookieState

LEMMA RequestsStay ==
  ASSUME RequestsTyped, UNCHANGED <<role, request, answered>>,
         overlapped' \in BOOLEAN, trouble' \in 0..MaxTrouble
  PROVE  RequestsTyped'
BY DEF RequestsTyped, RequestsOK

\* The idle device or none, sessions ended by the user or from outside.
LEMMA EndedKeeps ==
  ASSUME IInv, NEW D, Revoke(D), trouble' \in 0..MaxTrouble,
         \/ cookie' = KillCookies(D)
         \/ \E b \in Browser : cookie' = [KillCookies(D) EXCEPT ![b] = Nil]
  PROVE  IInv'
<1>1. KillCookies(D) \in [Browser -> CookieState]
  BY Parts, CookiesKilled DEF SessionsOK
<1>2. cookie' \in [Browser -> CookieState]
      /\ \A b \in Browser : cookie'[b] \in {KillCookies(D)[b], Nil}
  BY <1>1 DEF CookieState
<1>3. SessionsOK'
  BY <1>2, Parts, EndKeeps DEF Revoke
<1>4. RequestsTyped'
  BY Parts, RequestsStay DEF Revoke, RequestsTyped
<1> QED
  BY <1>3, <1>4, PartsNext

LEMMA LoginInitKeeps ==
  ASSUME IInv, NEW b \in Browser, LoginInit(b)
  PROVE  IInv'
<1> DEFINE idle == {d \in Device : isIdle(d)}
           kept == [o \in Browser |-> IF request[o] = "expired" THEN "none" ELSE request[o]]
<1>1. /\ RemoveRows(idle) /\ call' = UnbindCalls(idle) /\ cookie' = KillCookies(idle)
      /\ UNCHANGED <<role, overlapped, trouble>>
  BY DEF LoginInit
<1>2. \/ request' = [kept EXCEPT ![b] = "pending"] /\ answered' = [answered EXCEPT ![b] = 0]
      \/ request' = kept /\ UNCHANGED answered
  BY DEF LoginInit
<1>3. kept \in [Browser -> Statuses] /\ \A o \in Browser : kept[o] # "none" => request[o] # "none"
  BY Parts DEF RequestsTyped, Statuses
<1> HIDE DEF kept, idle
<1>4. /\ request' \in [Browser -> Statuses] /\ answered' \in [Browser -> Nat]
      /\ RequestsOK'
  <2>1. \A o \in Browser : answered[o] <= 1 /\ (request[o] # "none" => answered[o] = 0)
    BY Parts DEF RequestsTyped, RequestsOK
  <2>2. CASE request' = [kept EXCEPT ![b] = "pending"] /\ answered' = [answered EXCEPT ![b] = 0]
    BY <1>3, <2>1, <2>2, Parts DEF RequestsTyped, RequestsOK, Statuses
  <2>3. CASE request' = kept /\ UNCHANGED answered
    BY <1>3, <2>1, <2>3, Parts DEF RequestsTyped, RequestsOK
  <2> QED
    BY <1>2, <2>2, <2>3
<1>5. RequestsTyped'
  BY <1>1, <1>4, Parts DEF RequestsTyped
<1>6. KillCookies(idle) \in [Browser -> CookieState]
  BY Parts, CookiesKilled DEF SessionsOK
<1>7. SessionsOK'
  BY <1>1, <1>6, Parts, EndKeeps
<1> QED
  BY <1>5, <1>7, PartsNext

\* The link and its ten minutes.
LEMMA RequestKeeps ==
  ASSUME IInv, NEW b \in Browser, VerifyLink(b) \/ Expire(b)
  PROVE  IInv'
<1>1. /\ UNCHANGED <<role, row, cookie, call, answered, overlapped, trouble>>
      /\ request[b] # "none"
      /\ \E s \in {"verified", "expired"} : request' = [request EXCEPT ![b] = s]
  BY DEF VerifyLink, Expire
<1>2. RequestsTyped'
  BY <1>1, Parts DEF RequestsTyped, RequestsOK, Statuses
<1>3. SessionsOK'
  BY <1>1, Parts DEF SessionsOK, CallsOK, OneCreator, SingleDevice, OneOwner, UsedBy, CookiesLive, Live, Names
<1> QED
  BY <1>2, <1>3, PartsNext

LEMMA ActivateStartKeeps ==
  ASSUME IInv, NEW c \in Call, NEW b \in Browser, ActivateStart(c, b)
  PROVE  IInv'
<1> DEFINE k == [at |-> "verified", by |-> b, login |-> TRUE, tok |-> Nil]
<1>1. k \in CallState
  BY DEF CallState, Stages
<1>2. call' = [call EXCEPT ![c] = k] /\ UNCHANGED <<role, row, request, cookie, answered, overlapped, trouble>>
  BY DEF ActivateStart
<1>3. k.at = "verified" /\ k.tok = Nil /\ \A d : ~Names(k.tok, {d})
  BY DEF Names
<1> HIDE DEF k
<1>4. SessionsOK'
  BY <1>1, <1>2, <1>3, Parts, MoveKeeps
<1>5. RequestsTyped'
  BY <1>2, Parts, RequestsStay DEF RequestsTyped
<1> QED
  BY <1>4, <1>5, PartsNext

LEMMA ActivateRemoveKeeps ==
  ASSUME IInv, NEW c \in Call, ActivateRemove(c)
  PROVE  IInv'
<1> DEFINE gone == UnbindCalls(Device)
<1>1. /\ call[c].at = "verified" /\ RemoveRows(Device)
      /\ call' = [gone EXCEPT ![c].at = "removed"]
      /\ cookie' = KillCookies(Device)
      /\ overlapped' = (\E o \in Call \ {c} : call[o].at = "removed")
      /\ UNCHANGED <<role, request, answered, trouble>>
  BY DEF ActivateRemove
<1>2. /\ gone \in [Call -> CallState]
      /\ \A o \in Call : /\ gone[o].at = call[o].at /\ gone[o].by = call[o].by
                         /\ gone[o].tok = Nil <=> call[o].tok = Nil
                         /\ gone[o].tok \in Token <=> call[o].tok \in Token
                         /\ \A d : Names(gone[o].tok, {d}) <=> Names(call[o].tok, {d})
  BY Parts, CallsUnbound DEF SessionsOK
<1> HIDE DEF gone
<1>3. /\ call' \in [Call -> CallState]
      /\ \A o \in Call : /\ call'[o].at = (IF o = c THEN "removed" ELSE call[o].at)
                         /\ call'[o].by = call[o].by /\ call'[o].tok = gone[o].tok
  BY <1>1, <1>2 DEF CallState, Stages
<1>4. row' = [d \in Device |-> Nil] /\ Live' = {}
  BY <1>1 DEF RemoveRows, Live
<1>5. /\ cookie' \in [Browser -> CookieState]
      /\ \A b \in Browser : \A d \in Device : ~Names(cookie'[b], {d})
  BY <1>1, Parts, CookiesKilled DEF SessionsOK
<1>6. CallsOK'
  BY <1>1, <1>2, <1>3, Parts DEF SessionsOK, CallsOK
<1>7. SingleDevice' /\ OneCreator'
  BY <1>1, <1>3, <1>4 DEF SingleDevice, OneCreator
<1>8. OneOwner'
  <2>1. \A b \in Browser : \A d \in Device : UsedBy(b, d)' => UsedBy(b, d)
    <3> SUFFICES ASSUME NEW b \in Browser, NEW d \in Device, UsedBy(b, d)' PROVE UsedBy(b, d)
      OBVIOUS
    <3> QED
      BY <1>2, <1>3, <1>5, UsedAfter DEF UsedBy
  <2> QED
    BY <1>1, <2>1, Parts, OwnersKept DEF SessionsOK
<1>9. CookiesLive'
  BY <1>5 DEF CookiesLive
<1>10. SessionsOK'
  BY <1>3, <1>4, <1>5, <1>6, <1>7, <1>8, <1>9 DEF SessionsOK
<1>11. RequestsTyped'
  BY <1>1, Parts, RequestsStay DEF RequestsTyped
<1> QED
  BY <1>10, <1>11, PartsNext

LEMMA ActivateCreateKeeps ==
  ASSUME IInv, NEW c \in Call, ActivateCreate(c)
  PROVE  IInv'
<1>1. PICK d \in NewDevices :
           /\ call[c].at = "removed"
           /\ row' = [row EXCEPT ![d] = [via |-> "request", idle |-> FALSE]]
           /\ call' = [call EXCEPT ![c].at = "created", ![c].tok = [dev |-> d, bound |-> FALSE]]
           /\ UNCHANGED <<role, request, cookie, answered, overlapped, trouble>>
  BY DEF ActivateCreate
<1> DEFINE k == [call[c] EXCEPT !.at = "created", !.tok = [dev |-> d, bound |-> FALSE]]
           r == [via |-> "request", idle |-> FALSE]
<1>2. call[c] \in CallState /\ call \in [Call -> CallState]
  BY Parts DEF SessionsOK
<1>3. d \in Device /\ [dev |-> d, bound |-> FALSE] \in Token
  BY DEF NewDevices, Token
<1>4. k \in CallState /\ k.at = "created" /\ k.tok = [dev |-> d, bound |-> FALSE]
  BY <1>2, <1>3 DEF CallState, Stages
<1>5. call' = [call EXCEPT ![c] = k]
  BY <1>1, <1>2
<1>6. r \in Row /\ row' = [row EXCEPT ![d] = r]
  BY <1>1 DEF Row
<1> HIDE DEF k, r
<1>7. SessionsOK'
  <2>1. call[c].at = "removed" /\ UNCHANGED <<role, cookie, overlapped>> /\ SessionsOK
    BY <1>1, Parts
  <2> QED
    BY <1>4, <1>5, <1>6, <2>1, CreateKeeps
<1>8. RequestsTyped'
  BY <1>1, Parts, RequestsStay DEF RequestsTyped
<1> QED
  BY <1>7, <1>8, PartsNext

LEMMA SignInKeeps ==
  ASSUME IInv, NEW c \in Call, NEW b \in Browser, SignIn(c, b)
  PROVE  IInv'
<1> DEFINE k(d) == [at |-> "created", by |-> b, login |-> FALSE, tok |-> [dev |-> d, bound |-> FALSE]]
           r == [via |-> "signin", idle |-> FALSE]
<1>1. PICK d \in NewDevices :
           /\ row' = [row EXCEPT ![d] = r] /\ call' = [call EXCEPT ![c] = k(d)]
           /\ UNCHANGED <<role, request, cookie, answered, overlapped, trouble>>
  BY DEF SignIn
<1>2. /\ k(d) \in CallState /\ k(d).at = "created" /\ k(d).tok = [dev |-> d, bound |-> FALSE]
      /\ r \in Row /\ r.via # "request"
  BY DEF NewDevices, CallState, Stages, Token, Row
<1> HIDE DEF k, r
<1>3. SessionsOK'
  BY <1>1, <1>2, Parts, CreateKeeps
<1>4. RequestsTyped'
  BY <1>1, Parts, RequestsStay DEF RequestsTyped
<1> QED
  BY <1>3, <1>4, PartsNext

\* The refresh of a member of staff is for the device of the cookie.
LEMMA RefreshStartKeeps ==
  ASSUME IInv, NEW c \in Call, NEW b \in Browser, RefreshStart(c, b)
  PROVE  IInv'
<1> DEFINE k(d) == [at |-> "created", by |-> b, login |-> FALSE, tok |-> [dev |-> d, bound |-> FALSE]]
<1>1. PICK d \in AssertLiveRefreshDevice(cookie[b]) :
           /\ cookie[b] # Nil /\ call' = [call EXCEPT ![c] = k(d)]
           /\ UNCHANGED <<role, row, request, cookie, answered, overlapped, trouble>>
  BY DEF RefreshStart
<1>2. d \in Device /\ (role = "staff" => d = cookie[b].dev)
  BY DEF AssertLiveRefreshDevice, Usable, Live
<1>3. role = "staff" => UsedBy(b, d)
  BY <1>1, <1>2 DEF UsedBy, Names
<1>4. /\ k(d) \in CallState /\ k(d).at = "created" /\ k(d).by = b /\ k(d).tok \in Token
      /\ \A e \in Device : Names(k(d).tok, {e}) => e = d
  BY <1>2 DEF CallState, Stages, Token, Names
<1> HIDE DEF k
<1>5. SessionsOK'
  <2>1. \A e \in Device : Names(k(d).tok, {e}) /\ role = "staff" => UsedBy(k(d).by, e)
    BY <1>3, <1>4
  <2>2. SessionsOK
    BY Parts
  <2> QED
    BY <1>1, <1>4, <2>1, <2>2, MoveKeeps
<1>6. RequestsTyped'
  BY <1>1, Parts, RequestsStay DEF RequestsTyped
<1> QED
  BY <1>5, <1>6, PartsNext

\* A first password is set on the device of the cookie.
LEMMA SetupPasswordKeeps ==
  ASSUME IInv, NEW c \in Call, NEW b \in Browser, SetupPassword(c, b)
  PROVE  IInv'
<1> DEFINE d == cookie[b].dev
           k == [at |-> "created", by |-> b, login |-> FALSE, tok |-> [dev |-> d, bound |-> FALSE]]
<1>1. /\ Names(cookie[b], Usable) /\ call' = [call EXCEPT ![c] = k]
      /\ UNCHANGED <<role, row, request, cookie, answered, overlapped, trouble>>
  BY DEF SetupPassword
<1>2. d \in Device /\ UsedBy(b, d)
  BY <1>1 DEF Names, UsedBy, Usable, Live
<1>3. /\ k \in CallState /\ k.at = "created" /\ k.by = b /\ k.tok \in Token
      /\ \A e \in Device : Names(k.tok, {e}) => e = d
  BY <1>2 DEF CallState, Stages, Token, Names
<1> HIDE DEF k, d
<1>4. SessionsOK'
  <2>1. \A e \in Device : Names(k.tok, {e}) /\ role = "staff" => UsedBy(k.by, e)
    BY <1>2, <1>3
  <2>2. SessionsOK
    BY Parts
  <2> QED
    BY <1>1, <1>3, <2>1, <2>2, MoveKeeps
<1>5. RequestsTyped'
  BY <1>1, Parts, RequestsStay DEF RequestsTyped
<1> QED
  BY <1>4, <1>5, PartsNext

\* A handler that ends.
LEMMA FinishKeeps ==
  ASSUME SessionsOK, NEW c \in Call, Finish(c), UNCHANGED <<role, row, cookie, overlapped>>
  PROVE  SessionsOK'
<1>1. /\ None \in CallState /\ None.at = "done" /\ \A d \in Device : ~Names(None.tok, {d})
      /\ call' = [call EXCEPT ![c] = None]
  BY DEF None, CallState, Stages, Names, Finish
<1> QED
  BY <1>1, MoveKeeps

LEMMA CutOffKeeps ==
  ASSUME IInv, NEW c \in Call, CutOff(c)
  PROVE  IInv'
<1>1. /\ trouble < MaxTrouble /\ trouble' = trouble + 1
      /\ Finish(c) /\ UNCHANGED <<role, row, request, cookie, answered, overlapped>>
  BY DEF CutOff
<1>2. trouble' \in 0..MaxTrouble
  BY <1>1, Parts, LoginAssumption DEF RequestsTyped
<1>3. SessionsOK'
  BY <1>1, Parts, FinishKeeps
<1>4. RequestsTyped'
  BY <1>1, <1>2, Parts, RequestsStay DEF RequestsTyped
<1> QED
  BY <1>3, <1>4, PartsNext

LEMMA BindKeeps ==
  ASSUME IInv, NEW c \in Call, Bind(c)
  PROVE  IInv'
<1> DEFINE d == call[c].tok.dev
<1>1. call[c].at = "created" /\ UNCHANGED <<role, request, answered, overlapped, trouble>>
  BY DEF Bind
<1>2. RequestsTyped'
  BY <1>1, Parts, RequestsStay DEF RequestsTyped
<1>3. CASE row[d] = Nil
  <2>1. Finish(c) /\ UNCHANGED <<row, cookie>>
    BY <1>3 DEF Bind
  <2> QED
    BY <1>1, <1>2, <2>1, Parts, FinishKeeps, PartsNext
<1>4. CASE row[d] # Nil
  <2>1. PICK D \in {{}, {d}} :
             /\ row' = [row EXCEPT ![d].idle = FALSE]
             /\ cookie' = UnbindCookies(D)
             /\ call' = [UnbindCalls(D) EXCEPT ![c].at = "bound", ![c].tok.bound = TRUE]
    BY <1>4 DEF Bind
  <2>2. call[c].tok \in Token /\ d \in Device /\ d \in Live
    BY <1>1, <1>4, Parts DEF SessionsOK, CallsOK, Token, Live
  <2>3. /\ D \in SUBSET Device /\ row[d] \in Row /\ call \in [Call -> CallState]
        /\ cookie \in [Browser -> CookieState] /\ row \in [Device -> Row \cup {Nil}] /\ CallsOK
    BY <1>4, <2>2, Parts DEF SessionsOK
  <2> DEFINE free == UnbindCalls(D)
             r == [row[d] EXCEPT !.idle = FALSE]
             k == [free[c] EXCEPT !.at = "bound", !.tok = [@ EXCEPT !.bound = TRUE]]
  <2>4. r \in Row /\ r.via = row[d].via /\ row' = [row EXCEPT ![d] = r]
    BY <2>1, <2>3 DEF Row
  <2>5. /\ free \in [Call -> CallState]
        /\ \A o \in Call : /\ free[o].at = call[o].at /\ free[o].by = call[o].by
                           /\ free[o].tok = Nil <=> call[o].tok = Nil
                           /\ free[o].tok \in Token <=> call[o].tok \in Token
                           /\ \A e : Names(free[o].tok, {e}) <=> Names(call[o].tok, {e})
    BY <2>3, CallsUnbound
  <2>6. call' = [free EXCEPT ![c] = k]
    BY <2>1, <2>5
  <2> HIDE DEF free
  <2>7. free[c] \in CallState /\ free[c].tok \in Token
    BY <2>2, <2>5
  <2>8. /\ k \in CallState /\ k.at = "bound" /\ k.by = free[c].by
        /\ k.tok = [free[c].tok EXCEPT !.bound = TRUE]
    BY <2>7 DEF CallState, Stages, Token
  <2>9. k.tok \in Token /\ k.tok.dev = free[c].tok.dev
    BY <2>7, <2>8, ZenonT(30) DEF Token
  <2> HIDE DEF r, k
  <2>10. \A e : Names(k.tok, {e}) <=> Names(free[c].tok, {e})
    BY <2>7, <2>9, NilAssumption DEF Names
  <2>11. /\ call' \in [Call -> CallState]
         /\ \A o \in Call : call'[o] = IF o = c THEN k ELSE free[o]
    BY <2>5, <2>6, <2>8
  <2>12. CallsOK'
    BY <2>3, <2>5, <2>8, <2>9, <2>11 DEF CallsOK
  <2>13. /\ \A o \in Call : call'[o].at = "removed" => call[o].at = "removed"
         /\ \A o \in Call : call'[o].by = call[o].by
         /\ \A o \in Call : \A e \in Device : Names(call'[o].tok, {e}) <=> Names(call[o].tok, {e})
    BY <2>5, <2>8, <2>10, <2>11
  <2>14. /\ cookie' \in [Browser -> CookieState]
         /\ \A b \in Browser : \A e \in Device : Names(cookie'[b], {e}) <=> Names(cookie[b], {e})
    BY <2>1, <2>3, CookiesUnbound
  <2> HIDE DEF d
  <2>15. SessionsOK'
    BY <1>1, <2>2, <2>4, <2>11, <2>12, <2>13, <2>14, Parts, TouchKeeps
  <2> QED
    BY <1>2, <2>15, PartsNext
<1> QED
  BY <1>3, <1>4

\* The token goes from the handler to the browser it works for.
LEMMA AnsweredKeeps ==
  ASSUME SessionsOK, NEW c \in Call, NEW arrives \in BOOLEAN,
         call[c].at = "bound", Answered(c, arrives), UNCHANGED <<role, row, overlapped>>
  PROVE  SessionsOK'
<1> USE DEF SessionsOK
<1> DEFINE t == call[c].tok
           b == call[c].by
<1>1. t \in Token /\ t.dev \in Device
  BY DEF CallsOK, Token
<1>2. \/ cookie' = cookie
      \/ cookie' = [cookie EXCEPT ![b] = Dead] \/ (t.dev \in Live /\ cookie' = [cookie EXCEPT ![b] = t])
  BY <1>1 DEF Answered, Live
<1>3. UsedBy(b, t.dev)
  BY <1>1, NilAssumption DEF UsedBy, Names
<1>4. \A d \in Device : Names(t, {d}) => d = t.dev
  BY DEF Names
<1> HIDE DEF t, b
<1>5. cookie' \in [Browser -> CookieState]
  BY <1>1, <1>2 DEF CookieState
<1>6. \A o \in Browser : \A d \in Device :
        Names(cookie'[o], {d}) => Names(cookie[o], {d}) \/ (o = b /\ d = t.dev /\ d \in Live)
  BY <1>2, <1>4, DeadNamesNone
<1>7. /\ call' \in [Call -> CallState]
      /\ \A o \in Call : call'[o] = IF o = c THEN None ELSE call[o]
  BY DEF Answered, Finish, None, CallState, Stages
<1>8. None.at = "done" /\ \A d \in Device : ~Names(None.tok, {d})
  BY DEF None, Names
<1>9. CallsOK'
  BY <1>7, <1>8 DEF CallsOK
<1>10. Live' = Live
  BY DEF Live
<1>11. SingleDevice' /\ OneCreator'
  BY <1>7, <1>8, <1>10 DEF SingleDevice, OneCreator
<1>12. OneOwner'
  <2>1. \A o \in Browser : \A d \in Device : UsedBy(o, d)' => UsedBy(o, d)
    <3> SUFFICES ASSUME NEW o \in Browser, NEW d \in Device, UsedBy(o, d)' PROVE UsedBy(o, d)
      OBVIOUS
    <3>1. CASE Names(cookie'[o], {d})
      BY <1>3, <1>6, <3>1 DEF UsedBy
    <3>2. CASE \E k \in Call : call'[k].by = o /\ Names(call'[k].tok, {d})
      BY <1>7, <1>8, <3>2 DEF UsedBy
    <3> QED
      BY <3>1, <3>2, UsedAfter
  <2> QED
    BY <2>1, OwnersKept
<1>13. CookiesLive'
  BY <1>6, <1>10 DEF CookiesLive
<1> QED
  BY <1>5, <1>7, <1>9, <1>11, <1>12, <1>13

\* The trouble that a lost answer counts is bounded.
LEMMA AnsweredTrouble ==
  ASSUME RequestsTyped, NEW c \in Call, NEW arrives \in BOOLEAN, Answered(c, arrives)
  PROVE  trouble' \in 0..MaxTrouble
BY LoginAssumption DEF Answered, RequestsTyped

LEMMA AnswerKeeps ==
  ASSUME IInv, NEW c \in Call, NEW arrives \in BOOLEAN, Answer(c, arrives)
  PROVE  IInv'
<1>1. /\ call[c].at = "bound" /\ Answered(c, arrives)
      /\ UNCHANGED <<role, row, request, answered, overlapped>>
  BY DEF Answer
<1>2. SessionsOK'
  BY <1>1, Parts, AnsweredKeeps
<1>3. RequestsTyped'
  BY <1>1, Parts, AnsweredTrouble, RequestsStay DEF RequestsTyped
<1> QED
  BY <1>2, <1>3, PartsNext

\* The request is still there, so it was not answered; it is gone afterwards.
LEMMA ActivateDeleteKeeps ==
  ASSUME IInv, NEW c \in Call, NEW arrives \in BOOLEAN, ActivateDelete(c, arrives)
  PROVE  IInv'
<1>1. call[c].at = "bound" /\ UNCHANGED <<role, row, overlapped>>
  BY DEF ActivateDelete
<1>2. CASE request[call[c].by] = "none"
  <2>1. Finish(c) /\ UNCHANGED <<request, answered, cookie, trouble>>
    BY <1>2 DEF ActivateDelete
  <2>2. SessionsOK'
    BY <1>1, <2>1, Parts, FinishKeeps
  <2>3. RequestsTyped'
    BY <1>1, <2>1, Parts, RequestsStay DEF RequestsTyped
  <2> QED
    BY <2>2, <2>3, PartsNext
<1>3. CASE request[call[c].by] # "none"
  <2> DEFINE b == call[c].by
  <2>1. /\ request' = [request EXCEPT ![b] = "none"]
        /\ answered' = [answered EXCEPT ![b] = @ + 1]
        /\ Answered(c, arrives)
    BY <1>3 DEF ActivateDelete
  <2>2. SessionsOK'
    BY <1>1, <2>1, Parts, AnsweredKeeps
  <2>3. trouble' \in 0..MaxTrouble
    BY <2>1, Parts, AnsweredTrouble
  <2> HIDE DEF b
  <2>4. RequestsOK' /\ request' \in [Browser -> Statuses] /\ answered' \in [Browser -> Nat]
    <3>1. b \in Browser => answered[b] = 0
      BY <1>3, Parts DEF RequestsTyped, RequestsOK, b
    <3>2. /\ request \in [Browser -> Statuses] /\ answered \in [Browser -> Nat]
          /\ \A o \in Browser : answered[o] <= 1 /\ (request[o] # "none" => answered[o] = 0)
      BY Parts DEF RequestsTyped, RequestsOK
    <3>3. request' \in [Browser -> Statuses] /\ answered' \in [Browser -> Nat]
      <4>1. request' \in [Browser -> Statuses]
        BY <2>1, <3>2 DEF Statuses
      <4>2. DOMAIN answered' = Browser /\ answered' = [o \in Browser |-> answered'[o]]
        BY <2>1, <3>2
      <4>3. \A o \in Browser : answered'[o] = IF o = b THEN answered[o] + 1 ELSE answered[o]
        BY <2>1, <3>2
      <4>4. \A o \in Browser : answered'[o] \in Nat
        BY <3>2, <4>3
      <4> QED
        BY <4>1, <4>2, <4>4
    <3>4. \A o \in Browser : IF o = b THEN request'[o] = "none" /\ answered'[o] = 1
                             ELSE request'[o] = request[o] /\ answered'[o] = answered[o]
      BY <2>1, <3>1, <3>2
    <3> QED
      BY <3>2, <3>3, <3>4 DEF RequestsOK
  <2>5. RequestsTyped'
    BY <1>1, <2>3, <2>4, Parts DEF RequestsTyped
  <2> QED
    BY <2>2, <2>5, PartsNext
<1> QED
  BY <1>2, <1>3

LEMMA GoIdleKeeps ==
  ASSUME IInv, NEW d \in Device, GoIdle(d)
  PROVE  IInv'
<1> DEFINE r == [row[d] EXCEPT !.idle = TRUE]
<1>1. d \in Live /\ row' = [row EXCEPT ![d] = r]
      /\ UNCHANGED <<role, request, cookie, call, answered, overlapped, trouble>>
  BY DEF GoIdle, Live
<1>2. row[d] \in Row
  BY <1>1, Parts DEF SessionsOK, Live
<1>3. r \in Row /\ r.via = row[d].via
  BY <1>2 DEF Row
<1> HIDE DEF r
<1>4. cookie' \in [Browser -> CookieState] /\ call' \in [Call -> CallState] /\ CallsOK'
  BY <1>1, Parts DEF SessionsOK, CallsOK
<1>5. SessionsOK'
  BY <1>1, <1>3, <1>4, Parts, TouchKeeps
<1>6. RequestsTyped'
  BY <1>1, Parts, RequestsStay DEF RequestsTyped
<1> QED
  BY <1>5, <1>6, PartsNext

LEMMA StutterKeeps ==
  ASSUME IInv, UNCHANGED vars
  PROVE  IInv'
<1>1. /\ UNCHANGED <<row, cookie, call, overlapped>> /\ UNCHANGED <<role, request, answered, trouble>>
  BY DEF vars
<1>2. SessionsOK'
  BY <1>1, Parts DEF SessionsOK, CallsOK, OneCreator, SingleDevice, OneOwner, UsedBy, CookiesLive, Live, Names
<1>3. RequestsTyped'
  BY <1>1, Parts, RequestsStay DEF RequestsTyped
<1> QED
  BY <1>2, <1>3, PartsNext
-----------------------------------------------------------------------------
LEMMA NextIInv == IInv /\ [Next]_vars => IInv'
<1> SUFFICES ASSUME IInv, [Next]_vars PROVE IInv'
  OBVIOUS
<1>1. ASSUME NEW c \in Call, Step(c) PROVE IInv'
  BY <1>1, ActivateRemoveKeeps, ActivateCreateKeeps, BindKeeps, ActivateDeleteKeeps, AnswerKeeps
     DEF Step
<1>2. ASSUME NEW c \in Call, CutOff(c) PROVE IInv'
  BY <1>2, CutOffKeeps
<1>3. ASSUME NEW c \in Call, NEW b \in Browser,
             \/ ActivateStart(c, b) \/ SignIn(c, b)
             \/ RefreshStart(c, b) \/ SetupPassword(c, b)
      PROVE  IInv'
  BY <1>3, ActivateStartKeeps, SignInKeeps, RefreshStartKeeps, SetupPasswordKeeps
<1>4. ASSUME NEW b \in Browser, LoginInit(b) \/ VerifyLink(b) \/ Expire(b) PROVE IInv'
  BY <1>4, LoginInitKeeps, RequestKeeps
<1>5. trouble \in 0..MaxTrouble
  BY Parts DEF RequestsTyped
<1>6. ASSUME NEW b \in Browser, Logout(b) PROVE IInv'
  <2>1. PICK D : /\ RemoveRows(D) /\ cookie' = [KillCookies(D) EXCEPT ![b] = Nil]
                 /\ call' = UnbindCalls(D) /\ UNCHANGED <<role, request, answered, overlapped, trouble>>
    BY <1>6 DEF Logout
  <2> QED
    BY <1>5, <2>1, EndedKeeps DEF Revoke
<1>7. ASSUME NEW b \in Browser, SelfLogout(b) PROVE IInv'
  BY <1>5, <1>7, EndedKeeps DEF SelfLogout
<1>8. ASSUME NEW d \in Device, ForceLogoutDevice(d) PROVE IInv'
  <2>1. Revoke({d}) /\ cookie' = KillCookies({d}) /\ trouble < MaxTrouble /\ trouble' = trouble + 1
    BY <1>8 DEF ForceLogoutDevice
  <2>2. trouble' \in 0..MaxTrouble
    BY <1>5, <2>1, LoginAssumption
  <2> QED
    BY <2>1, <2>2, EndedKeeps
<1>9. ASSUME NEW d \in Device, GoIdle(d) PROVE IInv'
  BY <1>9, GoIdleKeeps
<1>10. CASE RevokeAll
  BY <1>5, <1>10, LoginAssumption, EndedKeeps DEF RevokeAll
<1>11. CASE CleanupDevices
  BY <1>5, <1>11, EndedKeeps DEF CleanupDevices
<1>12. CASE UNCHANGED vars
  BY <1>12, StutterKeeps
<1> QED
  BY <1>1, <1>2, <1>3, <1>4, <1>6, <1>7, <1>8, <1>9, <1>10, <1>11, <1>12 DEF Next

\* Every reachable state satisfies the inductive invariant.
THEOREM Invariance == Spec => []IInv
BY InitIInv, NextIInv, PTL DEF Spec

\* Every variable keeps its type: no handler is left with a token for a device
\* that was never created.
THEOREM TypeCorrect == Spec => []TypeOK
<1>1. IInv => TypeOK
  BY DEF IInv
<1> QED
  BY <1>1, Invariance, PTL

\* Of the activations of a login request, at most one is answered with tokens.
THEOREM RequestOpensOneSession == Spec => []OneSessionPerRequest
<1>1. IInv => OneSessionPerRequest
  BY DEF IInv, RequestsOK, OneSessionPerRequest
<1> QED
  BY <1>1, Invariance, PTL

\* A student has at most one device from login requests, unless two activations
\* had both removed the devices.
THEOREM OneDevice == Spec => []SingleDevice
<1>1. IInv => SingleDevice
  BY DEF IInv
<1> QED
  BY <1>1, Invariance, PTL

\* Two browsers of a member of staff never hold tokens of one session.
THEOREM SessionsAreSeparate == Spec => []NoSharedSession
<1>1. IInv => NoSharedSession
  <2> SUFFICES ASSUME IInv, role = "staff", NEW a \in Browser, NEW b \in Browser,
                      cookie[a] # Nil, Names(cookie[b], {cookie[a].dev} \ {Nil})
               PROVE  a = b
    BY DEF NoSharedSession
  <2> DEFINE d == cookie[a].dev
  <2>1. d # Nil /\ Names(cookie[b], {d})
    BY DEF Names
  <2>2. d \in Device
    BY <2>1 DEF IInv, TypeOK, Token, Dead
  <2>3. UsedBy(a, d) /\ UsedBy(b, d)
    BY <2>1 DEF UsedBy, Names
  <2> QED
    BY <2>2, <2>3 DEF IInv, OneOwner
<1> QED
  BY <1>1, Invariance, PTL

\* A device that was removed while a handler refers to it stays removed: new
\* rows are drawn from ids that no handler names, and binding a token to a row
\* that is gone fails.
THEOREM RemovalIsFinal == Spec => RemovedIsGone
<1> DEFINE Gone(d) == row[d] = Nil /\ Held(d) => row'[d] = Nil
<1>1. IInv /\ [Next]_vars => \A d \in Device : Gone(d)
  <2> SUFFICES ASSUME IInv, [Next]_vars, NEW d \in Device, row[d] = Nil, Held(d)
               PROVE  row'[d] = Nil
    OBVIOUS
  <2>1. row \in [Device -> Row \cup {Nil}]
    BY DEF IInv, TypeOK
  <2>2. d \notin NewDevices
    BY DEF NewDevices
  <2>3. ASSUME NEW c \in Call, Step(c) PROVE row'[d] = Nil
    <3>1. CASE ActivateRemove(c)
      BY <3>1 DEF ActivateRemove, RemoveRows
    <3>2. CASE ActivateCreate(c)
      BY <2>1, <2>2, <3>2 DEF ActivateCreate
    <3>3. CASE Bind(c)
      BY <2>1, <3>3 DEF Bind
    <3>4. CASE \E arrives \in BOOLEAN : ActivateDelete(c, arrives) \/ Answer(c, arrives)
      BY <3>4 DEF ActivateDelete, Answer
    <3> QED
      BY <2>3, <3>1, <3>2, <3>3, <3>4 DEF Step
  <2>4. ASSUME NEW c \in Call, NEW b \in Browser, SignIn(c, b) PROVE row'[d] = Nil
    BY <2>1, <2>2, <2>4 DEF SignIn
  <2>5. ASSUME NEW D, RemoveRows(D) PROVE row'[d] = Nil
    BY <2>5 DEF RemoveRows
  <2>6. ASSUME NEW e \in Device, GoIdle(e) PROVE row'[d] = Nil
    BY <2>1, <2>6 DEF GoIdle
  <2>7. \/ UNCHANGED row
        \/ \E c \in Call : Step(c) \/ \E b \in Browser : SignIn(c, b)
        \/ \E D : RemoveRows(D)
        \/ \E e \in Device : GoIdle(e)
    BY DEF Next, vars, CutOff, ActivateStart, RefreshStart, SetupPassword, LoginInit,
       VerifyLink, Expire, Logout, SelfLogout, ForceLogoutDevice, RevokeAll, CleanupDevices, Revoke
  <2> QED
    BY <2>3, <2>4, <2>5, <2>6, <2>7
<1>2. (\A d \in Device : Gone(d)) => [\A d \in Device : Gone(d)]_vars
  OBVIOUS
<1> QED
  BY <1>1, <1>2, Invariance, PTL DEF Spec, RemovedIsGone
=============================================================================
