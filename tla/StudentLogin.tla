---------------------------- MODULE StudentLogin ----------------------------
(***************************************************************************)
(* The login devices of one account and the browsers that use it.          *)
(*                                                                         *)
(* A session is a row of user_devices whose token hash is the one of the   *)
(* refresh token last issued for it.  A member of staff gets a row per     *)
(* login.  A student asks for a login request, clicks the link in the      *)
(* e-mail, and the page that waits activates it: every row is removed, one *)
(* is created, a token is bound to it, the request is deleted.  None of    *)
(* these calls is a transaction, so each is one step per statement.        *)
(*                                                                         *)
(* A token is the device it names and whether it is the one bound to the   *)
(* row (equal hashes).                                                     *)
(***************************************************************************)
EXTENDS Naturals, FiniteSets

CONSTANTS
  Browser,
  Device,      \* ids of user_devices; an id nothing refers to may be drawn again
  Call,        \* handlers that may run at once
  MaxTrouble,  \* bound: handlers cut off, and sessions revoked from outside
  Nil

ASSUME LoginAssumption ==
  /\ MaxTrouble \in Nat /\ IsFiniteSet(Call)
  /\ Nil \notin Browser \cup Device \cup Call

VARIABLES
  role,        \* "student" or "staff"
  row,         \* device -> its row, or Nil
  request,     \* browser -> the login request its page waits for
  cookie,      \* browser -> the token of its last login or refresh, or Nil
  call,        \* handler -> where it stands and what it holds
  answered,    \* history: browser -> sessions handed out for that request
  overlapped,  \* history: two activations had both removed and not yet created
  trouble

vars == <<role, row, request, cookie, call, answered, overlapped, trouble>>
-----------------------------------------------------------------------------
Token == [dev : Device, bound : BOOLEAN]
Dead == [dev |-> Nil, bound |-> FALSE]   \* of a device that was removed
Row == [via : {"request", "signin"}, idle : BOOLEAN]

\* No row and no token is null.
ASSUME NilAssumption == Nil \notin Row \cup Token \cup {Dead}

Statuses == {"none", "pending", "verified", "expired"}
Stages == {"done", "verified", "removed", "created", "bound"}

None == [at |-> "done", by |-> Nil, login |-> FALSE, tok |-> Nil]

Names(t, D) == t # Nil /\ t.dev \in D

\* Some handler refers to the row's id.
Held(d) == \E c \in Call : Names(call[c].tok, {d})

NewDevices == {d \in Device : row[d] = Nil /\ ~Held(d)}

\* isIdle: not used for DEVICE_INACTIVITY_DAYS.
isIdle(d) == row[d] # Nil /\ row[d].idle

Live == {d \in Device : row[d] # Nil}
Usable == {d \in Live : ~isIdle(d)}

\* The token t once the rows D are gone, or bound to another token.
Unbind(D, t) == IF Names(t, D) THEN [t EXCEPT !.bound = FALSE] ELSE t
UnbindCalls(D) == [c \in Call |-> [call[c] EXCEPT !.tok = Unbind(D, @)]]
UnbindCookies(D) == [b \in Browser |-> Unbind(D, cookie[b])]

\* The cookies once the rows D are gone: such a token only asks for a 401.
KillCookies(D) == [b \in Browser |-> IF Names(cookie[b], D) THEN Dead ELSE cookie[b]]

RemoveRows(D) == row' = [d \in Device |-> IF d \in D THEN Nil ELSE row[d]]

Free(c) == call[c] = None
Goto(c, stage) == call' = [call EXCEPT ![c].at = stage]
Finish(c) == call' = [call EXCEPT ![c] = None]

Init ==
  /\ role \in {"student", "staff"}
  /\ row = [d \in Device |-> Nil]
  /\ request = [b \in Browser |-> "none"]
  /\ cookie = [b \in Browser |-> Nil]
  /\ call = [c \in Call |-> None]
  /\ answered = [b \in Browser |-> 0]
  /\ overlapped = FALSE
  /\ trouble = 0
-----------------------------------------------------------------------------
(***************************************************************************)
(* A student's login request.                                              *)
(***************************************************************************)

\* studentLoginInit.  The cleanups before the check are kept even when the
\* answer is DEVICE_ACTIVE.  The request is created after the check; nothing
\* reads it before its link is clicked, so it may as well be there at once.
\* A page that asks again forgets its former request, which nobody can
\* activate any more; it does not ask while its activation runs.
LoginInit(b) ==
  /\ role = "student"
  /\ \A c \in Call : ~(call[c].login /\ call[c].by = b)
  /\ LET idle == {d \in Device : isIdle(d)}
         kept == [o \in Browser |-> IF request[o] = "expired" THEN "none" ELSE request[o]]
     IN
     /\ RemoveRows(idle)
     /\ call' = UnbindCalls(idle)
     /\ cookie' = KillCookies(idle)
     /\ IF Usable = {}
        THEN /\ request' = [kept EXCEPT ![b] = "pending"]
             /\ answered' = [answered EXCEPT ![b] = 0]
        ELSE request' = kept /\ UNCHANGED answered
  /\ UNCHANGED <<role, overlapped, trouble>>

\* verifyLoginMagicLink: the link is clicked, on any device.
VerifyLink(b) ==
  /\ request[b] = "pending"
  /\ request' = [request EXCEPT ![b] = "verified"]
  /\ UNCHANGED <<role, row, cookie, call, answered, overlapped, trouble>>

\* Ten minutes pass.
Expire(b) ==
  /\ request[b] \in {"pending", "verified"}
  /\ request' = [request EXCEPT ![b] = "expired"]
  /\ UNCHANGED <<role, row, cookie, call, answered, overlapped, trouble>>

\* activateStudentDevice reads the request.  Only the page that asked for it
\* has the secret; its timer may call twice.
ActivateStart(c, b) ==
  /\ Free(c)
  /\ request[b] = "verified"
  /\ call' = [call EXCEPT ![c] = [at |-> "verified", by |-> b, login |-> TRUE, tok |-> Nil]]
  /\ UNCHANGED <<role, row, request, cookie, answered, overlapped, trouble>>

\* Mutant: the rows of the student are left.
ActivateKeeps(c) ==
  /\ call[c].at = "verified"
  /\ Goto(c, "removed")
  /\ overlapped' = (\E o \in Call \ {c} : call[o].at = "removed")
  /\ UNCHANGED <<role, row, request, cookie, answered, trouble>>

\* ... removes every device of the student,
ActivateRemove(c) ==
  /\ call[c].at = "verified"
  /\ RemoveRows(Device)
  /\ call' = [UnbindCalls(Device) EXCEPT ![c].at = "removed"]
  /\ cookie' = KillCookies(Device)
  /\ overlapped' = (\E o \in Call \ {c} : call[o].at = "removed")
  /\ UNCHANGED <<role, request, answered, trouble>>

\* ... creates the device with a random hash,
ActivateCreate(c) ==
  /\ call[c].at = "removed"
  /\ \E d \in NewDevices :
     /\ row' = [row EXCEPT ![d] = [via |-> "request", idle |-> FALSE]]
     /\ call' = [call EXCEPT ![c].at = "created",
          ![c].tok = [dev |-> d, bound |-> FALSE]]
  /\ UNCHANGED <<role, request, cookie, answered, overlapped, trouble>>

\* Mutant: the binding creates the row when it is gone.
BindUpsert(c) ==
  /\ call[c].at = "created"
  /\ LET d == call[c].tok.dev IN
     /\ row' = [row EXCEPT ![d] =
          [via |-> IF call[c].login THEN "request" ELSE "signin", idle |-> FALSE]]
     /\ cookie' = UnbindCookies({d})
     /\ call' = [UnbindCalls({d}) EXCEPT ![c].at = "bound", ![c].tok.bound = TRUE]
  /\ UNCHANGED <<role, request, answered, overlapped, trouble>>

\* generateTokenPairAndSave signs the tokens and binds the refresh token to
\* the row by its id; the update of a row that is gone fails the call.  Two
\* tokens signed for a device in one second are the same token.
Bind(c) ==
  /\ call[c].at = "created"
  /\ LET d == call[c].tok.dev IN
     IF row[d] = Nil
     THEN Finish(c) /\ UNCHANGED <<row, cookie>>
     ELSE /\ row' = [row EXCEPT ![d].idle = FALSE]
          /\ \E others \in {{}, {d}} :
               /\ cookie' = UnbindCookies(others)
               /\ call' = [UnbindCalls(others) EXCEPT ![c].at = "bound", ![c].tok.bound = TRUE]
  /\ UNCHANGED <<role, request, answered, overlapped, trouble>>

\* The answer reaches the browser with the cookies, or is lost.
Answered(c, arrives) ==
  /\ cookie' = IF arrives THEN [cookie EXCEPT ![call[c].by] =
                         IF row[call[c].tok.dev] = Nil THEN Dead ELSE call[c].tok]
                ELSE cookie
  /\ trouble' = IF arrives THEN trouble ELSE trouble + 1
  /\ trouble' <= MaxTrouble
  /\ Finish(c)

\* Mutant: deleteMany, which does not mind that the request is gone.
DeleteAny(c, arrives) ==
  /\ call[c].at = "bound" /\ call[c].login
  /\ request' = [request EXCEPT ![call[c].by] = "none"]
  /\ answered' = [answered EXCEPT ![call[c].by] = @ + 1]
  /\ Answered(c, arrives)
  /\ UNCHANGED <<role, row, overlapped>>

\* ... and deletes the request; the delete of a request that is gone throws.
ActivateDelete(c, arrives) ==
  /\ call[c].at = "bound" /\ call[c].login
  /\ IF request[call[c].by] = "none"
     THEN Finish(c) /\ UNCHANGED <<request, answered, cookie, trouble>>
     ELSE /\ request' = [request EXCEPT ![call[c].by] = "none"]
          /\ answered' = [answered EXCEPT ![call[c].by] = @ + 1]
          /\ Answered(c, arrives)
  /\ UNCHANGED <<role, row, overlapped>>

\* The other calls only answer.
Answer(c, arrives) ==
  /\ call[c].at = "bound" /\ ~call[c].login
  /\ Answered(c, arrives)
  /\ UNCHANGED <<role, row, request, answered, overlapped>>
-----------------------------------------------------------------------------
(***************************************************************************)
(* Sign-in without a request, refresh, logout.                             *)
(***************************************************************************)

\* issueTokenPairForUser: the password login of staff, the Google callback of
\* anyone.  The row is created, then bound as above.
SignIn(c, b) ==
  /\ Free(c)
  /\ \E d \in NewDevices :
     /\ row' = [row EXCEPT ![d] = [via |-> "signin", idle |-> FALSE]]
     /\ call' = [call EXCEPT ![c] = [at |-> "created", by |-> b, login |-> FALSE,
                   tok |-> [dev |-> d, bound |-> FALSE]]]
  /\ UNCHANGED <<role, request, cookie, answered, overlapped, trouble>>

\* Mutant: the fallback is not only for students.
LatestForAnyone(t) ==
  IF t.bound /\ t.dev \in Usable THEN {t.dev} ELSE Usable

\* Mutant: a student without a live device is not turned away.
LatestOrNull(t) ==
  IF t.bound /\ t.dev \in Usable THEN {t.dev}
  ELSE IF role = "student" THEN IF Usable = {} THEN {Nil} ELSE Usable ELSE {}

\* assertLiveRefreshDevice: the device of the token when it is bound to it;
\* failing that, for a student, whichever live device was used last.  Any may
\* be: a request with an access token moves its device to the front.
AssertLiveRefreshDevice(t) ==
  IF t.bound /\ t.dev \in Usable THEN {t.dev}
  ELSE IF role = "student" THEN Usable ELSE {}

\* The refresh guard accepts the cookie; the token is issued by Bind.
RefreshStart(c, b) ==
  /\ Free(c) /\ cookie[b] # Nil
  /\ \E d \in AssertLiveRefreshDevice(cookie[b]) :
       call' = [call EXCEPT ![c] = [at |-> "created", by |-> b, login |-> FALSE,
                  tok |-> [dev |-> d, bound |-> FALSE]]]
  /\ UNCHANGED <<role, row, request, cookie, answered, overlapped, trouble>>

\* setupPassword: an account that came by Google sets its first password and
\* gets new tokens, by Bind, for the device its access token names.  The guard
\* of access tokens asks for that device, whatever refresh token is bound to it.
\* The model has no passwords, so the call may come again.
SetupPassword(c, b) ==
  /\ Free(c) /\ Names(cookie[b], Usable)
  /\ call' = [call EXCEPT ![c] = [at |-> "created", by |-> b, login |-> FALSE,
                tok |-> [dev |-> cookie[b].dev, bound |-> FALSE]]]
  /\ UNCHANGED <<role, row, request, cookie, answered, overlapped, trouble>>

\* revokeRefreshTokenBySession removes the device found by the refresh
\* token's hash, else by the access token unless that has expired.  The
\* cookies are cleared in any case.
Logout(b) ==
  /\ cookie[b] # Nil
  /\ \E D \in {{cookie[b].dev}, {}} :
       /\ D = {} => ~cookie[b].bound
       /\ RemoveRows(D)
       /\ cookie' = [KillCookies(D) EXCEPT ![b] = Nil]
       /\ call' = UnbindCalls(D)
  /\ UNCHANGED <<role, request, answered, overlapped, trouble>>
-----------------------------------------------------------------------------
(***************************************************************************)
(* Sessions ended from outside, time, failures.                            *)
(***************************************************************************)
\* removeDeviceById, removeAllDevicesForUser.
Revoke(D) ==
  /\ RemoveRows(D)
  /\ call' = UnbindCalls(D)
  /\ UNCHANGED <<role, request, answered, overlapped>>

\* studentSelfLogout: all devices, for whoever holds a token that verifies,
\* were its own device removed or not.
SelfLogout(b) ==
  /\ cookie[b] # Nil
  /\ Revoke(Device)
  /\ cookie' = [KillCookies(Device) EXCEPT ![b] = Nil]
  /\ UNCHANGED trouble

\* forceLogoutStudent, and resetPassword or changePassword of anyone, remove
\* every device.
RevokeAll ==
  /\ trouble < MaxTrouble /\ trouble' = trouble + 1
  /\ Revoke(Device) /\ cookie' = KillCookies(Device)

\* forceLogoutDevice: one row, from the device list.
ForceLogoutDevice(d) ==
  /\ row[d] # Nil
  /\ trouble < MaxTrouble /\ trouble' = trouble + 1
  /\ Revoke({d}) /\ cookie' = KillCookies({d})

\* cleanupExpiredDevices.
CleanupDevices ==
  /\ Live # Usable
  /\ Revoke(Live \ Usable) /\ cookie' = KillCookies(Live \ Usable)
  /\ UNCHANGED trouble

\* Sixty days pass without a request that uses the device.
GoIdle(d) ==
  /\ row[d] # Nil /\ ~row[d].idle
  /\ ~Held(d)
  /\ row' = [row EXCEPT ![d].idle = TRUE]
  /\ UNCHANGED <<role, request, cookie, call, answered, overlapped, trouble>>

\* A statement fails or the process stops.
CutOff(c) ==
  /\ ~Free(c)
  /\ trouble < MaxTrouble /\ trouble' = trouble + 1
  /\ Finish(c)
  /\ UNCHANGED <<role, row, request, cookie, answered, overlapped>>
-----------------------------------------------------------------------------
Step(c) ==
  \/ ActivateRemove(c) \/ ActivateCreate(c) \/ Bind(c)
  \/ \E arrives \in BOOLEAN : ActivateDelete(c, arrives) \/ Answer(c, arrives)

Next ==
  \/ \E c \in Call : \/ Step(c)
                     \/ CutOff(c)
                     \/ \E b \in Browser : \/ ActivateStart(c, b) \/ SignIn(c, b)
                                          \/ RefreshStart(c, b) \/ SetupPassword(c, b)
  \/ \E b \in Browser : \/ LoginInit(b) \/ VerifyLink(b) \/ Expire(b)
                        \/ Logout(b) \/ SelfLogout(b)
  \/ \E d \in Device : ForceLogoutDevice(d) \/ GoIdle(d)
  \/ RevokeAll \/ CleanupDevices

Spec == Init /\ [][Next]_vars
-----------------------------------------------------------------------------
\* Every variable keeps its type: no call of generateTokenPairAndSave or of the
\* refresh guard ends up with a token for a device that does not exist.
TypeOK ==
  /\ role \in {"student", "staff"}
  /\ row \in [Device -> Row \cup {Nil}]
  /\ request \in [Browser -> Statuses]
  /\ cookie \in [Browser -> Token \cup {Dead, Nil}]
  /\ call \in [Call -> [at : Stages, by : Browser \cup {Nil},
                        login : BOOLEAN, tok : Token \cup {Nil}]]
  /\ answered \in [Browser -> Nat]
  /\ overlapped \in BOOLEAN
  /\ trouble \in 0..MaxTrouble

\* A login request opens one session: of two activations of a request, which
\* the page's timer may send, at most one is answered with tokens.
OneSessionPerRequest == \A b \in Browser : answered[b] <= 1

\* A student has at most one device from login requests, whatever requests
\* were open at the same time, unless two activations had both removed the
\* devices before either created one.
SingleDevice ==
  overlapped \/ \A d, e \in Live :
    row[d].via = "request" /\ row[e].via = "request" => d = e

\* Two browsers of a member of staff never hold tokens of one session,
\* whatever refreshes and removals of the other run at once: ending a session
\* ends it on one browser.
NoSharedSession ==
  role = "staff" => \A a, b \in Browser :
    cookie[a] # Nil /\ Names(cookie[b], {cookie[a].dev} \ {Nil}) => a = b

\* A device that was removed while a handler refers to it stays removed: a
\* refresh or a login that had started before a logout does not undo it.
RemovedIsGone ==
  [][\A d \in Device : row[d] = Nil /\ Held(d) => row'[d] = Nil]_vars
-----------------------------------------------------------------------------
(* The inductive invariant behind these properties. *)

\* A handler refers to a device once it has created or found one.
CallsOK ==
  \A c \in Call :
    /\ call[c].at \in {"verified", "removed"} => call[c].tok = Nil
    /\ call[c].at \in {"created", "bound"} => call[c].tok \in Token

\* A request that is still there was not answered.
RequestsOK ==
  \A b \in Browser : answered[b] <= 1 /\ (request[b] # "none" => answered[b] = 0)

\* Unless two have both removed the devices, an activation that has removed
\* them is the only one, and has no device of a login request before it.
OneCreator ==
  overlapped \/ \A c \in Call : call[c].at = "removed" =>
    /\ \A o \in Call : call[o].at = "removed" => o = c
    /\ \A d \in Live : row[d].via # "request"

\* The cookie of a browser, or a handler that works for it, refers to d.
UsedBy(b, d) ==
  Names(cookie[b], {d}) \/ \E c \in Call : call[c].by = b /\ Names(call[c].tok, {d})

\* A session of a member of staff is that of one browser.
OneOwner ==
  role = "staff" => \A d \in Device : \A a, b \in Browser :
    UsedBy(a, d) /\ UsedBy(b, d) => a = b

\* The device of a cookie that is not dead exists, and so is not drawn again.
CookiesLive == \A b \in Browser, d \in Device : Names(cookie[b], {d}) => d \in Live

IInv ==
  TypeOK /\ CallsOK /\ RequestsOK /\ OneCreator /\ SingleDevice /\ OneOwner /\ CookiesLive
=============================================================================
