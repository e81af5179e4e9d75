--------------------------- MODULE SessionProofs ---------------------------
(***************************************************************************)
(* Theorems about Session, for any users and any number of sign-ins,        *)
(* sign-outs and submissions: types, what the page shows against the        *)
(* session, and what it says about the sign-in.                             *)
(***************************************************************************)
EXTENDS Session, TLAPS

USE DEF OnLoginPage, OnDashboard

----------------------------------------------------------------------------
(* The inductive invariant behind the safety properties. *)

\* An open call was sent with the present session or outlived its own.
CallsAreExplained ==
    \A x \in Calls : Open(x) => call[x].owner \in {cookie, NoUser} \union outlived

SocketIsExplained == socket \in {cookie, NoUser} \union outlived

ItemsAreExplained == feedItems \subseteq {cookie} \union outlived

\* Until the start of the page ends, nothing else is under way and the cookie is the
\* one that the start was sent with.
StartIsAlone ==
    /\ Open(Boot) => authenticated = "unknown" /\ call[Boot].owner = cookie
    /\ authenticated = "unknown" =>
          /\ \A x \in Calls \ {Boot} : ~Open(x)
          /\ \A k \in Attempts : attempt[k].step = "unused"
          /\ \A s \in Signouts : signout[s] # "sent"
          /\ ~monitoring /\ socket = NoUser

InductiveInv ==
    /\ TypeOK
    /\ CallsAreExplained
    /\ SocketIsExplained
    /\ ItemsAreExplained
    /\ StartIsAlone
    /\ SignInMatchesCookie

----------------------------------------------------------------------------
(* Types *)

LEMMA InitTypeOK == Init => TypeOK
<1> SUFFICES ASSUME Init PROVE TypeOK
  OBVIOUS
<1> USE DEF Init, Sessions, At, Closed, Asked, AttemptSteps
<1>1. attempt \in AttemptType
  BY DEF AttemptType
<1>2. call \in CallType
  BY DEF CallType
<1>3. signout \in [Signouts -> {"unused", "sent", "ended"}]
  OBVIOUS
<1> QED
  BY <1>1, <1>2, <1>3 DEF TypeOK

\* What the page calls is among the calls.
LEMMA CallKeys ==
    /\ Boot \in Calls /\ Cable \in Calls /\ Cable # Boot
    /\ \A k \in Attempts : <<"login", k>> \in Calls /\ <<"login", k>> # Boot /\ k \in Mounts
    /\ \A k \in Mounts : <<"mount", k>> \in Calls /\ <<"mount", k>> # Boot
    /\ \A p \in Posts : <<"post", p>> \in Calls /\ <<"post", p>> # Boot
    /\ 0 \in Mounts
BY BoundsAssumption DEF Calls, Boot, Cable, Attempts, Mounts

\* Changing the cookie keeps the types that it touches.
LEMMA SetCookieType ==
    ASSUME outlived \subseteq Users, NEW session \in Sessions, NEW kept \in SUBSET Users,
           SetCookie(session, kept)
    PROVE  cookie' \in Sessions /\ outlived' \subseteq Users
BY DEF SetCookie

LEMMA AnswerType ==
    ASSUME TypeOK, NEW session \in Sessions, NEW kept \in SUBSET Users,
           AnswerMaySetCookie(session, kept)
    PROVE  cookie' \in Sessions /\ outlived' \subseteq Users /\ swapped' \in BOOLEAN
<1>1. outlived \subseteq Users /\ cookie \in Sessions /\ swapped \in BOOLEAN
  BY DEF TypeOK
<1>2. CASE UNCHANGED cookieVars
  BY <1>1, <1>2 DEF cookieVars
<1>3. CASE SetCookie(session, kept) /\ swapped' = (swapped \/ session # cookie)
  BY <1>1, <1>3, SetCookieType
<1> QED
  BY <1>2, <1>3 DEF AnswerMaySetCookie

LEMMA OwnerType == call \in CallType => \A x \in Calls : call[x].owner \in Sessions
BY DEF CallType

LEMMA AttemptFields ==
    attempt \in AttemptType =>
        \A k \in Attempts : attempt[k].typed \in Sessions /\ attempt[k].session \in Sessions
BY DEF AttemptType

\* Every change of a call keeps its type.
LEMMA EndedType == ASSUME call \in CallType, NEW x \in Calls PROVE Ended(x) \in CallType
BY DEF Ended, Closed, CallType, Sessions

LEMMA AskedType ==
    ASSUME NEW calls \in CallType, NEW x \in Calls, NEW u \in Sessions
    PROVE  [calls EXCEPT ![x] = Asked(u)] \in CallType
BY DEF Asked, CallType

LEMMA MountType ==
    ASSUME NEW calls \in CallType, NEW k \in Mounts, NEW u \in Sessions
    PROVE  Mount(calls, k, u) \in CallType
BY CallKeys, AskedType DEF Mount

\* The changes that handleLogin makes to its own state keep its type.
LEMMA AttemptMoves ==
    ASSUME attempt \in AttemptType, NEW k \in Attempts,
           NEW step \in {"items", "health", "ended"}
    PROVE  [attempt EXCEPT ![k] = At(step)] \in AttemptType
BY DEF AttemptType, AttemptSteps, At, Sessions

\* What a change of the calls leaves open.
LEMMA EndedOpens ==
    ASSUME call \in CallType, NEW x \in Calls, NEW y \in Calls, Ended(x)[y].step = "asked"
    PROVE  Open(y) /\ y # x /\ Ended(x)[y].owner = call[y].owner
BY DEF Ended, Closed, CallType, Open

LEMMA AskedOpens ==
    ASSUME NEW calls \in CallType, NEW x \in Calls, NEW u \in Sessions, NEW y \in Calls,
           [calls EXCEPT ![x] = Asked(u)][y].step = "asked"
    PROVE  \/ y = x /\ [calls EXCEPT ![x] = Asked(u)][y].owner = u
           \/ calls[y].step = "asked" /\ [calls EXCEPT ![x] = Asked(u)][y].owner = calls[y].owner
BY DEF Asked, CallType

LEMMA MountOpens ==
    ASSUME NEW calls \in CallType, NEW k \in Mounts, NEW u \in Sessions, NEW y \in Calls,
           Mount(calls, k, u)[y].step = "asked"
    PROVE  \/ y = <<"mount", k>> /\ Mount(calls, k, u)[y].owner = u
           \/ calls[y].step = "asked" /\ Mount(calls, k, u)[y].owner = calls[y].owner
BY CallKeys, AskedOpens DEF Mount

\* A call that ends keeps the types of what it touches.
LEMMA ItemsReturnType ==
    ASSUME TypeOK, NEW x \in Calls, ItemsReturn(x)
    PROVE  /\ cookie' \in Sessions /\ outlived' \subseteq Users /\ swapped' \in BOOLEAN
           /\ feedItems' \subseteq Users /\ call' \in CallType
<1>1. call \in CallType /\ call[x].owner \in Sessions /\ {} \in SUBSET Users
  BY OwnerType DEF TypeOK
<1>2. call' \in CallType
  BY <1>1, EndedType DEF ItemsReturn
<1>3. feedItems' \subseteq Users
  BY <1>1 DEF ItemsReturn, Sessions
<1> QED
  BY <1>1, <1>2, <1>3, AnswerType DEF ItemsReturn

LEMMA CallThrowsType ==
    ASSUME TypeOK, NEW x \in Calls, CallThrows(x)
    PROVE  /\ cookie' \in Sessions /\ outlived' \subseteq Users /\ swapped' \in BOOLEAN
           /\ call' \in CallType
<1>1. call \in CallType /\ call[x].owner \in Sessions /\ feedItems \in SUBSET Users
  BY OwnerType DEF TypeOK
<1>2. call' \in CallType
  BY <1>1, EndedType DEF CallThrows
<1> QED
  BY <1>1, <1>2, AnswerType DEF CallThrows

LEMMA TypeOKStep == TypeOK /\ [Next]_vars => TypeOK'
<1> SUFFICES ASSUME TypeOK, [Next]_vars PROVE TypeOK'
  OBVIOUS
<1> USE DEF TypeOK, formVars, pageVars, callVars, cableVars, history
<1>n. NoUser \in Sessions
  BY DEF Sessions
<1>1. ASSUME BootReturns PROVE TypeOK'
  <2>1. call[Boot].owner \in Sessions /\ Ended(Boot) \in CallType
    BY CallKeys, OwnerType, EndedType
  <2>2. call' \in CallType
    BY <1>1, <2>1, CallKeys, MountType DEF BootReturns
  <2>3. feedItems' \subseteq Users
    BY <1>1, <2>1 DEF BootReturns, Sessions
  <2> QED
    BY <1>1, <2>2, <2>3 DEF BootReturns
<1>2. ASSUME BootThrows PROVE TypeOK'
  <2>1. call' \in CallType
    BY <1>2, CallKeys, EndedType DEF BootThrows
  <2> QED
    BY <1>2, <2>1 DEF BootThrows
<1>3. ASSUME NEW k \in Attempts, SignInReturns(k) PROVE TypeOK'
  <2> DEFINE u == attempt[k].session
  <2> DEFINE asking == [call EXCEPT ![<<"login", k>>] = Asked(u)]
  <2>1. u \in Sessions /\ attempt[k].typed \in Sessions
    BY AttemptFields
  <2>2. cookie' \in Sessions /\ outlived' \subseteq Users
    BY <1>3, <2>1, SetCookieType DEF SignInReturns
  <2>3. call' \in CallType /\ monitoring' \in BOOLEAN
    <3>1. asking \in CallType
      BY <2>1, CallKeys, AskedType
    <3>2. \/ call' = asking /\ monitoring' = monitoring
          \/ call' = Mount(asking, k, u) /\ monitoring' = TRUE
      BY <1>3 DEF SignInReturns
    <3> HIDE DEF u, asking
    <3> QED
      BY <2>1, <3>1, <3>2, CallKeys, MountType
  <2>4. attempt' \in AttemptType
    BY <1>3, AttemptMoves DEF SignInReturns
  <2>5. /\ swapped' \in BOOLEAN /\ inherited' \in BOOLEAN /\ loginFailed' \in BOOLEAN
        /\ waiting' \in {0} \union Attempts
    BY <1>3 DEF SignInReturns, NewLoginForm
  <2> QED
    BY <1>3, <2>1, <2>2, <2>3, <2>4, <2>5 DEF SignInReturns
<1>4. ASSUME NEW k \in Attempts, SignInThrows(k) PROVE TypeOK'
  <2>1. attempt' \in AttemptType
    BY <1>4, AttemptMoves DEF SignInThrows
  <2>2. cookie' \in Sessions /\ outlived' \subseteq Users /\ swapped' \in BOOLEAN
    BY <1>4, AttemptFields, AnswerType DEF SignInThrows
  <2>3. loginFailed' \in BOOLEAN /\ waiting' \in {0} \union Attempts
    BY <1>4 DEF SignInThrows
  <2> QED
    BY <1>4, <2>1, <2>2, <2>3 DEF SignInThrows
<1>5. ASSUME NEW k \in Attempts, LoginItemsReturn(k) PROVE TypeOK'
  <2>1. /\ cookie' \in Sessions /\ outlived' \subseteq Users /\ swapped' \in BOOLEAN
        /\ feedItems' \subseteq Users /\ call' \in CallType
    BY <1>5, CallKeys, ItemsReturnType DEF LoginItemsReturn
  <2>2. attempt' \in AttemptType
    BY <1>5, AttemptMoves DEF LoginItemsReturn
  <2> QED
    BY <1>5, <2>1, <2>2 DEF LoginItemsReturn, ItemsReturn
<1>6. ASSUME NEW k \in Attempts, LoginItemsThrow(k) PROVE TypeOK'
  <2>1. /\ cookie' \in Sessions /\ outlived' \subseteq Users /\ swapped' \in BOOLEAN
        /\ call' \in CallType
    BY <1>6, CallKeys, CallThrowsType DEF LoginItemsThrow
  <2>2. attempt' \in AttemptType
    BY <1>6, AttemptMoves DEF LoginItemsThrow
  <2> QED
    BY <1>6, <2>1, <2>2 DEF LoginItemsThrow, CallThrows
<1>7. ASSUME NEW k \in Attempts, HealthReturns(k) PROVE TypeOK'
  <2>1. attempt' \in AttemptType
    BY <1>7, AttemptMoves DEF HealthReturns
  <2>2. fading' \in Nat
    BY <1>7 DEF HealthReturns
  <2>3. loginFailed' \in BOOLEAN /\ waiting' \in {0} \union Attempts
    BY <1>7 DEF HealthReturns, NewLoginForm
  <2> QED
    BY <1>7, <2>1, <2>2, <2>3 DEF HealthReturns
<1>8. ASSUME NEW k \in Attempts, HealthThrows(k) PROVE TypeOK'
  <2>1. attempt' \in AttemptType
    BY <1>8, AttemptMoves DEF HealthThrows
  <2> QED
    BY <1>8, <2>1 DEF HealthThrows
<1>9. ASSUME NEW k \in Attempts, NEW typed \in Users, NEW right \in BOOLEAN,
             handleSubmit(k, typed, right)
      PROVE  TypeOK'
  <2>1. attempt' \in AttemptType
    BY <1>9 DEF handleSubmit, Sessions, AttemptType, AttemptSteps
  <2> QED
    BY <1>9, <2>1 DEF handleSubmit
<1>10. ASSUME FlashFades PROVE TypeOK'
  <2>1. fading' \in Nat
    BY <1>10 DEF FlashFades
  <2> QED
    BY <1>10, <2>1 DEF FlashFades
<1>11. ASSUME CloseFlash PROVE TypeOK'
  BY <1>11 DEF CloseFlash
<1>12. ASSUME NEW s \in Signouts, SignOut(s) PROVE TypeOK'
  BY <1>12 DEF SignOut
<1>13. ASSUME NEW s \in Signouts, SignOutReturns(s) \/ SignOutThrows(s) PROVE TypeOK'
  <2>1. cookie' \in Sessions /\ outlived' \subseteq Users /\ swapped' \in BOOLEAN
    BY <1>13, <1>n, SetCookieType DEF SignOutReturns, SignOutThrows, ClearCookie, cookieVars
  <2> QED
    BY <1>13, <1>n, <2>1 DEF SignOutReturns, SignOutThrows, LeavePage
<1>14. ASSUME NEW k \in Mounts, MountItemsReturn(k) PROVE TypeOK'
  <2>1. /\ cookie' \in Sessions /\ outlived' \subseteq Users /\ swapped' \in BOOLEAN
        /\ feedItems' \subseteq Users /\ call' \in CallType
    BY <1>14, CallKeys, ItemsReturnType DEF MountItemsReturn
  <2> QED
    BY <1>14, <2>1 DEF MountItemsReturn, ItemsReturn
<1>15. ASSUME NEW k \in Mounts, MountItemsThrow(k) PROVE TypeOK'
  <2>1. /\ cookie' \in Sessions /\ outlived' \subseteq Users /\ swapped' \in BOOLEAN
        /\ call' \in CallType
    BY <1>15, CallKeys, CallThrowsType DEF MountItemsThrow
  <2> QED
    BY <1>15, <2>1 DEF MountItemsThrow, CallThrows
<1>16. ASSUME NEW p \in Posts, SubmitFeeds(p) PROVE TypeOK'
  <2>1. call' \in CallType
    BY <1>16, CallKeys, AskedType DEF SubmitFeeds
  <2> QED
    BY <1>16, <2>1 DEF SubmitFeeds
<1>17. ASSUME NEW p \in Posts, SubmitEnds(p) PROVE TypeOK'
  <2>1. /\ cookie' \in Sessions /\ outlived' \subseteq Users /\ swapped' \in BOOLEAN
        /\ call' \in CallType
    BY <1>17, CallKeys, CallThrowsType DEF SubmitEnds
  <2>2. posting' \in {0} \union Posts
    BY <1>17 DEF SubmitEnds
  <2> QED
    BY <1>17, <2>1, <2>2 DEF SubmitEnds, CallThrows
<1>18. ASSUME ReceiveItems PROVE TypeOK'
  BY <1>18 DEF ReceiveItems, Sessions
<1>19. ASSUME SocketMoves PROVE TypeOK'
  <2>1. call[Cable].owner \in Sessions /\ Ended(Cable) \in CallType
    BY CallKeys, OwnerType, EndedType
  <2>2. [call EXCEPT ![Cable] = Asked(cookie)] \in CallType
    BY CallKeys, AskedType
  <2>3. call' \in CallType
    BY <1>19, <2>1, <2>2
    DEF SocketMoves, OpenSocket, SocketOpens, SocketIsRefused, SocketIsLost
  <2>4. socket' \in Sessions /\ monitoring' \in BOOLEAN
    BY <1>19, <1>n, <2>1
    DEF SocketMoves, OpenSocket, SocketOpens, SocketIsRefused, SocketIsLost
  <2> QED
    BY <1>19, <2>3, <2>4
    DEF SocketMoves, OpenSocket, SocketOpens, SocketIsRefused, SocketIsLost
<1>20. CASE UNCHANGED vars
  BY <1>20 DEF vars
<1> QED
  BY <1>1, <1>2, <1>3, <1>4, <1>5, <1>6, <1>7, <1>8, <1>9, <1>10, <1>11, <1>12, <1>13,
     <1>14, <1>15, <1>16, <1>17, <1>18, <1>19, <1>20 DEF Next, BootEnds, LoginRuns

----------------------------------------------------------------------------
(* What a step does to the calls and to the cookie *)

\* A call that is open after a step was open before it, or was sent with the cookie
\* of then.
CallsMove ==
    \A y \in Calls : Open(y)' =>
        \/ Open(y) /\ call'[y].owner = call[y].owner
        \/ y # Boot /\ call'[y].owner = cookie'

\* Whoever listens when the cookie changes is remembered until the next change.
CookieMoves ==
    \/ UNCHANGED <<cookie, outlived>>
    \/ \A u \in Users : Listens(u) => u \in outlived'

LEMMA SetCookieMoves == ASSUME NEW session, NEW kept, SetCookie(session, kept) PROVE CookieMoves
BY DEF SetCookie, CookieMoves

LEMMA AnswerMoves ==
    ASSUME NEW session, NEW kept, AnswerMaySetCookie(session, kept) PROVE CookieMoves
BY SetCookieMoves DEF AnswerMaySetCookie, cookieVars, CookieMoves

LEMMA ClearMoves == ClearCookie \/ UNCHANGED cookieVars => CookieMoves
BY SetCookieMoves DEF ClearCookie, cookieVars, CookieMoves

\* An answer that the page is not told of leaves the cookie or is recorded.
LEMMA AnswerSwaps ==
    ASSUME TypeOK, NEW session, NEW kept, AnswerMaySetCookie(session, kept)
    PROVE  swapped' = TRUE \/ (cookie' = cookie /\ swapped' = swapped)
BY DEF AnswerMaySetCookie, cookieVars, SetCookie, TypeOK

LEMMA CallsStep == TypeOK /\ StartIsAlone /\ [Next]_vars => CallsMove
<1> SUFFICES ASSUME TypeOK, StartIsAlone, [Next]_vars, NEW y \in Calls, Open(y)'
             PROVE  \/ Open(y) /\ call'[y].owner = call[y].owner
                    \/ y # Boot /\ call'[y].owner = cookie'
  BY DEF CallsMove
<1> DEFINE Goal ==
       \/ Open(y) /\ call'[y].owner = call[y].owner
       \/ y # Boot /\ call'[y].owner = cookie'
<1>t. call \in CallType /\ attempt \in AttemptType /\ cookie \in Sessions
  BY DEF TypeOK
<1>o. call'[y].step = "asked"
  BY DEF Open
<1>e. ASSUME NEW x \in Calls, call' = Ended(x) PROVE Goal
  BY <1>e, <1>t, <1>o, EndedOpens
<1>u. CASE UNCHANGED call
  BY <1>u, <1>o DEF Open
<1>1. CASE BootReturns
  <2>1. Ended(Boot) \in CallType /\ call[Boot].owner \in Sessions
    BY <1>t, CallKeys, EndedType, OwnerType
  <2>2. \/ y = <<"mount", 0>> /\ call'[y].owner = call[Boot].owner
        \/ Ended(Boot)[y].step = "asked" /\ call'[y].owner = Ended(Boot)[y].owner
    BY <1>1, <1>o, <2>1, CallKeys, MountOpens DEF BootReturns
  <2>3. call[Boot].owner = cookie' /\ <<"mount", 0>> # Boot
    BY <1>1, CallKeys DEF BootReturns, StartIsAlone
  <2> QED
    BY <1>t, <2>2, <2>3, CallKeys, EndedOpens
<1>2. CASE BootThrows
  BY <1>2, <1>e, CallKeys DEF BootThrows
<1>3. ASSUME NEW k \in Attempts, SignInReturns(k) PROVE Goal
  <2> DEFINE u == attempt[k].session
  <2> DEFINE asking == [call EXCEPT ![<<"login", k>>] = Asked(u)]
  <2>1. u \in Sessions
    BY <1>t, AttemptFields
  <2>2. asking \in CallType
    BY <1>t, <2>1, CallKeys, AskedType
  <2>3. (call' = asking \/ call' = Mount(asking, k, u)) /\ cookie' = u
    BY <1>3 DEF SignInReturns, SetCookie
  <2>4. \/ y = <<"mount", k>> /\ call'[y].owner = u
        \/ asking[y].step = "asked" /\ call'[y].owner = asking[y].owner
    <3> HIDE DEF u, asking
    <3>1. CASE call' = asking
      BY <1>o, <3>1
    <3>2. CASE call' = Mount(asking, k, u)
      BY <1>o, <2>1, <2>2, <3>2, CallKeys, MountOpens
    <3> QED
      BY <2>3, <3>1, <3>2
  <2>5. asking[y].step = "asked" => \/ y = <<"login", k>> /\ asking[y].owner = u
                                    \/ Open(y) /\ asking[y].owner = call[y].owner
    BY <1>t, <2>1, CallKeys, AskedOpens DEF Open
  <2>6. <<"mount", k>> # Boot /\ <<"login", k>> # Boot
    BY CallKeys
  <2> HIDE DEF u, asking
  <2> QED
    BY <2>3, <2>4, <2>5, <2>6
<1>4. ASSUME NEW k \in Attempts, LoginItemsReturn(k) \/ LoginItemsThrow(k) PROVE Goal
  BY <1>4, <1>e, CallKeys DEF LoginItemsReturn, LoginItemsThrow, ItemsReturn, CallThrows
<1>5. ASSUME NEW k \in Mounts, MountItemsReturn(k) \/ MountItemsThrow(k) PROVE Goal
  BY <1>5, <1>e, CallKeys DEF MountItemsReturn, MountItemsThrow, ItemsReturn, CallThrows
<1>6. ASSUME NEW p \in Posts, SubmitEnds(p) PROVE Goal
  BY <1>6, <1>e, CallKeys DEF SubmitEnds, CallThrows
<1>7. ASSUME NEW p \in Posts, SubmitFeeds(p) PROVE Goal
  <2>1. call' = [call EXCEPT ![<<"post", p>>] = Asked(cookie)] /\ cookie' = cookie
    BY <1>7 DEF SubmitFeeds
  <2> QED
    BY <1>t, <1>o, <2>1, CallKeys, AskedOpens DEF Open
<1>8. ASSUME NEW k \in Attempts,
             \/ SignInThrows(k) \/ HealthReturns(k) \/ HealthThrows(k)
             \/ \E typed \in Users, right \in BOOLEAN : handleSubmit(k, typed, right)
      PROVE  UNCHANGED call
  BY <1>8 DEF SignInThrows, HealthReturns, HealthThrows, handleSubmit
<1>9. ASSUME NEW s \in Signouts, SignOut(s) \/ SignOutReturns(s) \/ SignOutThrows(s)
      PROVE  UNCHANGED call
  BY <1>9 DEF SignOut, SignOutReturns, SignOutThrows
<1>10. CASE OpenSocket
  <2>1. call' = [call EXCEPT ![Cable] = Asked(cookie)] /\ cookie' = cookie
    BY <1>10 DEF OpenSocket
  <2> QED
    BY <1>t, <1>o, <2>1, CallKeys, AskedOpens DEF Open
<1>11. CASE SocketOpens \/ SocketIsRefused \/ SocketIsLost
  BY <1>11, <1>e, CallKeys DEF SocketOpens, SocketIsRefused, SocketIsLost
<1>12. CASE FlashFades \/ CloseFlash \/ ReceiveItems \/ UNCHANGED vars
  BY <1>12, <1>u DEF FlashFades, CloseFlash, ReceiveItems, vars, callVars
<1> QED
  BY <1>1, <1>2, <1>3, <1>4, <1>5, <1>6, <1>7, <1>8, <1>9, <1>10, <1>11, <1>12, <1>u
  DEF Next, BootEnds, LoginRuns, SocketMoves

LEMMA CookieStep == [Next]_vars => CookieMoves
<1> SUFFICES ASSUME [Next]_vars PROVE CookieMoves
  OBVIOUS
<1>1. CASE UNCHANGED <<cookie, outlived>>
  BY <1>1 DEF CookieMoves
<1>2. ASSUME NEW k \in Attempts, LoginRuns(k) PROVE CookieMoves
  <2>1. CASE SignInReturns(k)
    BY <2>1, SetCookieMoves DEF SignInReturns
  <2>2. CASE SignInThrows(k) \/ LoginItemsReturn(k) \/ LoginItemsThrow(k)
    BY <2>2, AnswerMoves
    DEF SignInThrows, LoginItemsReturn, LoginItemsThrow, ItemsReturn, CallThrows
  <2>3. CASE HealthReturns(k) \/ HealthThrows(k)
    BY <2>3, <1>1 DEF HealthReturns, HealthThrows, history
  <2> QED
    BY <1>2, <2>1, <2>2, <2>3 DEF LoginRuns
<1>3. ASSUME NEW k \in Mounts, MountItemsReturn(k) \/ MountItemsThrow(k) PROVE CookieMoves
  BY <1>3, AnswerMoves DEF MountItemsReturn, MountItemsThrow, ItemsReturn, CallThrows
<1>4. ASSUME NEW s \in Signouts, SignOutReturns(s) \/ SignOutThrows(s) PROVE CookieMoves
  BY <1>4, ClearMoves DEF SignOutReturns, SignOutThrows
<1>5. ASSUME NEW p \in Posts, SubmitEnds(p) PROVE CookieMoves
  BY <1>5, AnswerMoves DEF SubmitEnds, CallThrows
<1>6. ASSUME NEW k \in Attempts, NEW typed \in Users, NEW right \in BOOLEAN,
             handleSubmit(k, typed, right)
      PROVE  CookieMoves
  BY <1>6, <1>1 DEF handleSubmit, history
<1>7. CASE \/ BootEnds \/ (\E s \in Signouts : SignOut(s)) \/ (\E p \in Posts : SubmitFeeds(p))
           \/ FlashFades \/ CloseFlash \/ ReceiveItems \/ SocketMoves \/ UNCHANGED vars
  BY <1>7, <1>1
  DEF BootEnds, BootReturns, BootThrows, SignOut, SubmitFeeds, FlashFades, CloseFlash,
      ReceiveItems, SocketMoves, OpenSocket, SocketOpens, SocketIsRefused, SocketIsLost,
      vars, history
<1> QED
  BY <1>2, <1>3, <1>4, <1>5, <1>6, <1>7 DEF Next

----------------------------------------------------------------------------
(* Explanations: whose calls, sockets and items the page has *)

LEMMA CallsAreExplainedStep ==
    TypeOK /\ CallsAreExplained /\ CallsMove /\ CookieMoves => CallsAreExplained'
<1> SUFFICES ASSUME TypeOK, CallsAreExplained, CallsMove, CookieMoves,
                    NEW y \in Calls, Open(y)'
             PROVE  call'[y].owner \in {cookie', NoUser} \union outlived'
  BY DEF CallsAreExplained
<1>1. CASE call'[y].owner = cookie'
  BY <1>1
<1>2. CASE Open(y) /\ call'[y].owner = call[y].owner
  <2>1. call[y].owner \in {cookie, NoUser} \union outlived
    BY <1>2 DEF CallsAreExplained
  <2>2. call[y].owner = NoUser \/ call[y].owner \in Users
    BY OwnerType DEF TypeOK, Sessions
  <2>3. call[y].owner \in Users => Listens(call[y].owner)
    BY <1>2 DEF Listens
  <2> QED
    BY <1>2, <2>1, <2>2, <2>3 DEF CookieMoves
<1> QED
  BY <1>1, <1>2 DEF CallsMove

LEMMA SocketIsExplainedStep ==
    TypeOK /\ CallsAreExplained /\ SocketIsExplained /\ CookieMoves /\ [Next]_vars
        => SocketIsExplained'
<1> SUFFICES ASSUME TypeOK, CallsAreExplained, SocketIsExplained, CookieMoves, [Next]_vars
             PROVE  SocketIsExplained'
  OBVIOUS
<1>1. CASE SocketOpens
  BY <1>1, CallKeys DEF SocketOpens, CallsAreExplained, SocketIsExplained, history
<1>2. CASE SocketIsLost
  BY <1>2 DEF SocketIsLost, SocketIsExplained
<1>3. CASE socket' = socket
  BY <1>3 DEF SocketIsExplained, CookieMoves, Listens, TypeOK, Sessions
<1>4. ASSUME NEW k \in Attempts, LoginRuns(k) PROVE socket' = socket
  BY <1>4 DEF LoginRuns, SignInReturns, SignInThrows, LoginItemsReturn, LoginItemsThrow,
              HealthReturns, HealthThrows, cableVars
<1>5. ASSUME NEW k \in Attempts, NEW typed \in Users, NEW right \in BOOLEAN,
             handleSubmit(k, typed, right)
      PROVE  socket' = socket
  BY <1>5 DEF handleSubmit, cableVars
<1>6. ASSUME NEW s \in Signouts, SignOut(s) \/ SignOutReturns(s) \/ SignOutThrows(s)
      PROVE  socket' = socket
  BY <1>6 DEF SignOut, SignOutReturns, SignOutThrows, cableVars
<1>7. ASSUME NEW k \in Mounts, MountItemsReturn(k) \/ MountItemsThrow(k)
      PROVE  socket' = socket
  BY <1>7 DEF MountItemsReturn, MountItemsThrow, cableVars
<1>8. ASSUME NEW p \in Posts, SubmitFeeds(p) \/ SubmitEnds(p) PROVE socket' = socket
  BY <1>8 DEF SubmitFeeds, SubmitEnds, cableVars
<1>9. CASE \/ BootEnds \/ FlashFades \/ CloseFlash \/ ReceiveItems \/ OpenSocket
           \/ SocketIsRefused \/ UNCHANGED vars
  BY <1>9, <1>3 DEF BootEnds, BootReturns, BootThrows, FlashFades, CloseFlash, ReceiveItems,
              OpenSocket, SocketIsRefused, vars, cableVars
<1> QED
  BY <1>1, <1>2, <1>3, <1>4, <1>5, <1>6, <1>7, <1>8, <1>9 DEF Next, SocketMoves

\* Items of a call that was open, or of the socket.
LEMMA ItemsOfListeners ==
    ASSUME TypeOK, CallsAreExplained, SocketIsExplained, CookieMoves,
           NEW u \in Users, Listens(u)
    PROVE  u \in {cookie'} \union outlived'
<1>1. u \in {cookie, NoUser} \union outlived
  BY DEF Listens, CallsAreExplained, SocketIsExplained
<1> QED
  BY <1>1, UsersAssumption DEF CookieMoves

\* Items that the page keeps when the cookie may change.
LEMMA KeptItems ==
    ASSUME ItemsAreExplained, feedItems' = feedItems, NEW session,
           SetCookie(session, feedItems) \/ AnswerMaySetCookie(session, feedItems)
                                         \/ UNCHANGED <<cookie, outlived>>
    PROVE  ItemsAreExplained'
BY DEF ItemsAreExplained, SetCookie, AnswerMaySetCookie, cookieVars

\* Items of a call.
LEMMA ReturnedItems ==
    ASSUME TypeOK, CallsAreExplained, SocketIsExplained, CookieMoves,
           NEW x \in Calls, ItemsReturn(x)
    PROVE  ItemsAreExplained'
<1>1. call[x].owner \in Users /\ Listens(call[x].owner) /\ feedItems' = {call[x].owner}
  BY OwnerType DEF ItemsReturn, TypeOK, Sessions, Listens
<1> QED
  BY <1>1, ItemsOfListeners DEF ItemsAreExplained

LEMMA ItemsAreExplainedStep ==
    InductiveInv /\ CookieMoves /\ [Next]_vars => ItemsAreExplained'
<1> SUFFICES ASSUME InductiveInv, CookieMoves, [Next]_vars PROVE ItemsAreExplained'
  OBVIOUS
<1>t. TypeOK /\ CallsAreExplained /\ SocketIsExplained /\ ItemsAreExplained /\ StartIsAlone
  BY DEF InductiveInv
<1>k. CASE feedItems' = feedItems /\ UNCHANGED <<cookie, outlived>>
  BY <1>k, <1>t, KeptItems
<1>1. CASE BootReturns
  BY <1>1, <1>t DEF BootReturns, StartIsAlone, ItemsAreExplained
<1>2. ASSUME NEW k \in Attempts, LoginRuns(k) PROVE ItemsAreExplained'
  <2>1. CASE SignInReturns(k)
    BY <2>1, <1>t, KeptItems DEF SignInReturns
  <2>2. CASE SignInThrows(k)
    BY <2>2, <1>t, KeptItems DEF SignInThrows
  <2>3. CASE LoginItemsReturn(k)
    BY <2>3, <1>t, CallKeys, ReturnedItems DEF LoginItemsReturn
  <2>4. CASE LoginItemsThrow(k)
    BY <2>4, <1>t, KeptItems DEF LoginItemsThrow, CallThrows
  <2>5. CASE HealthReturns(k) \/ HealthThrows(k)
    BY <2>5, <1>k DEF HealthReturns, HealthThrows, pageVars, history
  <2> QED
    BY <1>2, <2>1, <2>2, <2>3, <2>4, <2>5 DEF LoginRuns
<1>3. ASSUME NEW k \in Mounts, MountItemsReturn(k) PROVE ItemsAreExplained'
  BY <1>3, <1>t, CallKeys, ReturnedItems DEF MountItemsReturn
<1>4. ASSUME NEW k \in Mounts, MountItemsThrow(k) PROVE ItemsAreExplained'
  BY <1>4, <1>t, KeptItems DEF MountItemsThrow, CallThrows
<1>5. ASSUME NEW p \in Posts, SubmitEnds(p) PROVE ItemsAreExplained'
  BY <1>5, <1>t, KeptItems DEF SubmitEnds, CallThrows
<1>6. ASSUME NEW s \in Signouts, SignOutReturns(s) \/ SignOutThrows(s)
      PROVE  ItemsAreExplained'
  BY <1>6 DEF SignOutReturns, SignOutThrows, LeavePage, ItemsAreExplained
<1>7. CASE ReceiveItems
  <2>1. socket \in Users /\ Listens(socket)
    BY <1>7, <1>t DEF ReceiveItems, Listens, TypeOK, Sessions
  <2>2. socket \in {cookie'} \union outlived'
    BY <1>t, <2>1, ItemsOfListeners
  <2> QED
    BY <1>7, <1>t, <2>2 DEF ReceiveItems, ItemsAreExplained, history
<1>8. ASSUME NEW k \in Attempts, NEW typed \in Users, NEW right \in BOOLEAN,
             handleSubmit(k, typed, right)
      PROVE  ItemsAreExplained'
  BY <1>8, <1>k DEF handleSubmit, history
<1>9. CASE \/ BootThrows \/ (\E s \in Signouts : SignOut(s)) \/ (\E p \in Posts : SubmitFeeds(p))
           \/ FlashFades \/ CloseFlash \/ SocketMoves \/ UNCHANGED vars
  BY <1>9, <1>k
  DEF BootThrows, SignOut, SubmitFeeds, FlashFades, CloseFlash, SocketMoves, OpenSocket,
      SocketOpens, SocketIsRefused, SocketIsLost, vars, pageVars, history
<1> QED
  BY <1>1, <1>2, <1>3, <1>4, <1>5, <1>6, <1>7, <1>8, <1>9 DEF Next, BootEnds

----------------------------------------------------------------------------
(* The start of the page, and what the page says of the sign-in *)

LEMMA StartIsAloneStep ==
    InductiveInv /\ CallsMove /\ [Next]_vars => StartIsAlone'
<1> SUFFICES ASSUME InductiveInv, CallsMove, [Next]_vars PROVE StartIsAlone'
  OBVIOUS
<1>t. TypeOK /\ StartIsAlone /\ Boot \in Calls /\ call \in CallType
  BY CallKeys DEF InductiveInv, TypeOK
\* The page has started.
<1>s. ASSUME authenticated' # "unknown", ~Open(Boot)' PROVE StartIsAlone'
  BY <1>s DEF StartIsAlone
<1>d. ASSUME authenticated # "unknown", authenticated' # "unknown" PROVE StartIsAlone'
  <2>1. ~Open(Boot)
    BY <1>d, <1>t DEF StartIsAlone
  <2> QED
    BY <1>d, <1>s, <1>t, <2>1 DEF CallsMove
\* Nothing that it is about changes.
<1>u. ASSUME authenticated' = authenticated, cookie' = cookie, UNCHANGED <<callVars, cableVars>>
      PROVE  StartIsAlone'
  BY <1>u, <1>t DEF StartIsAlone, Open, callVars, cableVars
\* A call other than that of the start ends.
<1>c. ASSUME NEW x \in Calls \ {Boot}, Open(x), authenticated' = authenticated
      PROVE  StartIsAlone'
  BY <1>c, <1>d, <1>t DEF StartIsAlone
<1>1. CASE BootReturns
  <2>1. call' = Mount(Ended(Boot), 0, call[Boot].owner) /\ authenticated' = "yes"
    BY <1>1 DEF BootReturns
  <2>2. Ended(Boot) \in CallType /\ call[Boot].owner \in Sessions
    BY <1>t, EndedType, OwnerType
  <2>3. Ended(Boot)[Boot].step # "asked"
    BY <1>t, EndedOpens
  <2>4. ~Open(Boot)'
    BY <1>t, <2>1, <2>2, <2>3, CallKeys, MountOpens DEF Open
  <2> QED
    BY <2>1, <2>4, <1>s
<1>2. CASE BootThrows
  <2>1. call' = Ended(Boot) /\ authenticated' = "no"
    BY <1>2 DEF BootThrows
  <2>2. ~Open(Boot)'
    BY <1>t, <2>1, EndedOpens DEF Open
  <2> QED
    BY <2>1, <2>2, <1>s
<1>3. ASSUME NEW k \in Attempts, LoginRuns(k) PROVE StartIsAlone'
  <2>1. attempt[k].step # "unused" \/ Open(<<"login", k>>)
    BY <1>3 DEF LoginRuns, SignInReturns, SignInThrows, LoginItemsReturn, LoginItemsThrow,
                HealthReturns, HealthThrows, ItemsReturn, CallThrows
  <2>2. authenticated # "unknown"
    BY <1>t, <2>1, CallKeys DEF StartIsAlone
  <2>3. authenticated' \in {authenticated, "yes"}
    BY <1>3 DEF LoginRuns, SignInReturns, SignInThrows, LoginItemsReturn, LoginItemsThrow,
                HealthReturns, HealthThrows, ItemsReturn, CallThrows, pageVars
  <2> QED
    BY <2>2, <2>3, <1>d
<1>4. ASSUME NEW k \in Attempts, NEW typed \in Users, NEW right \in BOOLEAN,
             handleSubmit(k, typed, right)
      PROVE  StartIsAlone'
  BY <1>4, <1>d DEF handleSubmit
<1>5. ASSUME NEW s \in Signouts, SignOut(s) PROVE StartIsAlone'
  BY <1>5, <1>d DEF SignOut, pageVars
<1>6. ASSUME NEW s \in Signouts, SignOutReturns(s) \/ SignOutThrows(s) PROVE StartIsAlone'
  <2>1. signout[s] = "sent" /\ authenticated' = "no"
    BY <1>6 DEF SignOutReturns, SignOutThrows, LeavePage
  <2> QED
    BY <2>1, <1>t, <1>d DEF StartIsAlone
<1>7. ASSUME NEW k \in Mounts, MountItemsReturn(k) \/ MountItemsThrow(k)
      PROVE  StartIsAlone'
  BY <1>7, <1>c, CallKeys DEF MountItemsReturn, MountItemsThrow, ItemsReturn, CallThrows
<1>8. ASSUME NEW p \in Posts, SubmitFeeds(p) PROVE StartIsAlone'
  BY <1>8, <1>d DEF SubmitFeeds
<1>9. ASSUME NEW p \in Posts, SubmitEnds(p) PROVE StartIsAlone'
  BY <1>9, <1>c, CallKeys DEF SubmitEnds, CallThrows
<1>10. CASE FlashFades \/ CloseFlash \/ ReceiveItems \/ UNCHANGED vars
  BY <1>10, <1>u DEF FlashFades, CloseFlash, ReceiveItems, vars, callVars, cableVars, pageVars
<1>11. CASE SocketMoves
  <2>1. monitoring \/ socket # NoUser \/ Open(Cable)
    BY <1>11 DEF SocketMoves, OpenSocket, SocketOpens, SocketIsRefused, SocketIsLost
  <2>2. authenticated # "unknown"
    BY <1>t, <2>1, CallKeys DEF StartIsAlone
  <2>3. authenticated' = authenticated
    BY <1>11
    DEF SocketMoves, OpenSocket, SocketOpens, SocketIsRefused, SocketIsLost, pageVars
  <2> QED
    BY <2>2, <2>3, <1>d
<1> QED
  BY <1>1, <1>2, <1>3, <1>4, <1>5, <1>6, <1>7, <1>8, <1>9, <1>10, <1>11 DEF Next, BootEnds

LEMMA SignInMatchesCookieStep ==
    InductiveInv /\ [Next]_vars => SignInMatchesCookie'
<1> SUFFICES ASSUME InductiveInv, [Next]_vars PROVE SignInMatchesCookie'
  OBVIOUS
<1>t. TypeOK /\ StartIsAlone /\ SignInMatchesCookie
  BY DEF InductiveInv
\* The page says what it said, and the cookie is the same or an answer swapped it.
<1>k. ASSUME authenticated' = authenticated, userEmail' = userEmail,
             inherited' = inherited, unheard' = unheard,
             swapped' = TRUE \/ (cookie' = cookie /\ swapped' = swapped)
      PROVE  SignInMatchesCookie'
  BY <1>k, <1>t DEF SignInMatchesCookie
<1>1. CASE BootReturns
  BY <1>1, <1>t DEF BootReturns, StartIsAlone, SignInMatchesCookie, history
<1>2. CASE BootThrows
  BY <1>2 DEF BootThrows, SignInMatchesCookie
<1>3. ASSUME NEW k \in Attempts, LoginRuns(k) PROVE SignInMatchesCookie'
  <2>1. CASE SignInReturns(k)
    <3>1. /\ cookie' = attempt[k].session /\ cookie' # NoUser /\ authenticated' = "yes"
          /\ userEmail' = attempt[k].typed
          /\ inherited' = (attempt[k].session # attempt[k].typed)
      BY <2>1 DEF SignInReturns, SetCookie
    <3> QED
      BY <3>1 DEF SignInMatchesCookie
  <2>2. CASE SignInThrows(k)
    BY <2>2, <1>t, <1>k, AnswerSwaps DEF SignInThrows
  <2>3. CASE LoginItemsReturn(k)
    BY <2>3, <1>t, <1>k, AnswerSwaps DEF LoginItemsReturn, ItemsReturn
  <2>4. CASE LoginItemsThrow(k)
    BY <2>4, <1>t, <1>k, AnswerSwaps DEF LoginItemsThrow, CallThrows
  <2>5. CASE HealthReturns(k) \/ HealthThrows(k)
    BY <2>5, <1>k DEF HealthReturns, HealthThrows, pageVars, history
  <2> QED
    BY <1>3, <2>1, <2>2, <2>3, <2>4, <2>5 DEF LoginRuns
<1>4. ASSUME NEW s \in Signouts, SignOutReturns(s) PROVE SignInMatchesCookie'
  BY <1>4 DEF SignOutReturns, LeavePage, ClearCookie, SetCookie, SignInMatchesCookie
<1>5. ASSUME NEW s \in Signouts, SignOutThrows(s) PROVE SignInMatchesCookie'
  BY <1>5 DEF SignOutThrows, LeavePage, SignInMatchesCookie
<1>6. ASSUME NEW k \in Mounts, MountItemsReturn(k) PROVE SignInMatchesCookie'
  BY <1>6, <1>t, <1>k, AnswerSwaps DEF MountItemsReturn, ItemsReturn
<1>7. ASSUME NEW k \in Mounts, MountItemsThrow(k) PROVE SignInMatchesCookie'
  BY <1>7, <1>t, <1>k, AnswerSwaps DEF MountItemsThrow, CallThrows
<1>8. ASSUME NEW p \in Posts, SubmitEnds(p) PROVE SignInMatchesCookie'
  BY <1>8, <1>t, <1>k, AnswerSwaps DEF SubmitEnds, CallThrows
<1>9. ASSUME NEW k \in Attempts, NEW typed \in Users, NEW right \in BOOLEAN,
             handleSubmit(k, typed, right)
      PROVE  SignInMatchesCookie'
  BY <1>9, <1>k DEF handleSubmit, history
<1>10. CASE \/ (\E s \in Signouts : SignOut(s)) \/ (\E p \in Posts : SubmitFeeds(p))
            \/ FlashFades \/ CloseFlash \/ ReceiveItems \/ SocketMoves \/ UNCHANGED vars
  BY <1>10, <1>k
  DEF SignOut, SubmitFeeds, FlashFades, CloseFlash, ReceiveItems, SocketMoves, OpenSocket,
      SocketOpens, SocketIsRefused, SocketIsLost, vars, pageVars, history
<1> QED
  BY <1>1, <1>2, <1>3, <1>4, <1>5, <1>6, <1>7, <1>8, <1>9, <1>10 DEF Next, BootEnds

----------------------------------------------------------------------------
(* The message of a sign-in *)

LEMMA FlashWillFadeStep == TypeOK /\ FlashWillFade /\ [Next]_vars => FlashWillFade'
<1> SUFFICES ASSUME TypeOK, FlashWillFade, [Next]_vars PROVE FlashWillFade'
  OBVIOUS
<1>t. attempt \in AttemptType /\ fading \in Nat
  BY DEF TypeOK
\* The message is gone, or what it waits for is left.
<1>f. CASE flash' = FALSE
  BY <1>f DEF FlashWillFade
<1>k. ASSUME flash' = flash, fading' = fading, cut' = cut \/ cut' = TRUE,
             \A k \in Attempts :
                attempt[k].step \in {"items", "health"} =>
                    attempt'[k].step \in {"items", "health"} \/ cut' = TRUE
      PROVE  FlashWillFade'
  BY <1>k DEF FlashWillFade
<1>u. CASE UNCHANGED <<flash, fading, attempt, cut>>
  BY <1>u, <1>k
<1>1. ASSUME NEW k \in Attempts, LoginRuns(k) PROVE FlashWillFade'
  <2>1. CASE SignInReturns(k)
    <3>1. attempt'[k].step = "items"
      BY <2>1, <1>t DEF SignInReturns, At, AttemptType
    <3> QED
      BY <3>1 DEF FlashWillFade
  <2>2. CASE SignInThrows(k)
    BY <2>2, <1>t, <1>k DEF SignInThrows, At, AttemptType
  <2>3. CASE LoginItemsReturn(k)
    BY <2>3, <1>t, <1>k DEF LoginItemsReturn, ItemsReturn, At, AttemptType
  <2>4. CASE LoginItemsThrow(k) \/ HealthThrows(k)
    BY <2>4 DEF LoginItemsThrow, HealthThrows, FlashWillFade
  <2>5. CASE HealthReturns(k)
    <3>1. fading' > 0
      BY <2>5, <1>t DEF HealthReturns
    <3> QED
      BY <3>1 DEF FlashWillFade
  <2> QED
    BY <1>1, <2>1, <2>2, <2>3, <2>4, <2>5 DEF LoginRuns
<1>2. ASSUME NEW k \in Attempts, NEW typed \in Users, NEW right \in BOOLEAN,
             handleSubmit(k, typed, right)
      PROVE  FlashWillFade'
  BY <1>2, <1>t, <1>k DEF handleSubmit, AttemptType, history
<1>3. CASE FlashFades \/ CloseFlash
  BY <1>3, <1>f DEF FlashFades, CloseFlash
<1>4. ASSUME NEW s \in Signouts, SignOutReturns(s) \/ SignOutThrows(s) PROVE FlashWillFade'
  BY <1>4, <1>f DEF SignOutReturns, SignOutThrows, LeavePage
<1>5. ASSUME NEW k \in Mounts, MountItemsReturn(k) \/ MountItemsThrow(k)
      PROVE  FlashWillFade'
  BY <1>5, <1>u DEF MountItemsReturn, MountItemsThrow, ItemsReturn, CallThrows
<1>6. ASSUME NEW p \in Posts, SubmitFeeds(p) \/ SubmitEnds(p) PROVE FlashWillFade'
  BY <1>6, <1>u DEF SubmitFeeds, SubmitEnds, CallThrows, history
<1>7. CASE BootEnds \/ (\E s \in Signouts : SignOut(s)) \/ ReceiveItems \/ SocketMoves
           \/ UNCHANGED vars
  BY <1>7, <1>u
  DEF BootEnds, BootReturns, BootThrows, SignOut, ReceiveItems, SocketMoves, OpenSocket,
      SocketOpens, SocketIsRefused, SocketIsLost, vars, pageVars, callVars, history
<1> QED
  BY <1>1, <1>2, <1>3, <1>4, <1>5, <1>6, <1>7 DEF Next

----------------------------------------------------------------------------
(* The theorems *)

LEMMA InitInductive == Init => InductiveInv
<1> SUFFICES ASSUME Init PROVE InductiveInv
  OBVIOUS
<1>1. \A x \in Calls : Open(x) => x = Boot /\ call[x].owner = cookie
  BY DEF Init, Open, Asked, Closed
<1>2. \A k \in Attempts : attempt[k].step = "unused"
  BY DEF Init, At
<1>3. \A s \in Signouts : signout[s] # "sent"
  BY DEF Init
<1>4. CallsAreExplained /\ StartIsAlone
  BY <1>1, <1>2, <1>3, CallKeys DEF Init, CallsAreExplained, StartIsAlone
<1>5. SocketIsExplained /\ ItemsAreExplained /\ SignInMatchesCookie
  BY DEF Init, SocketIsExplained, ItemsAreExplained, SignInMatchesCookie
<1> QED
  BY <1>4, <1>5, InitTypeOK DEF InductiveInv

\* The invariant that the others follow from holds, whatever order the answers of the
\* page's calls come in, and however many sign-ins overlap (App.jsx:87-215).
THEOREM InductiveInvariant == Spec => []InductiveInv
<1>1. InductiveInv /\ [Next]_vars => InductiveInv'
  <2> SUFFICES ASSUME InductiveInv, [Next]_vars PROVE InductiveInv'
    OBVIOUS
  <2>1. CookieMoves
    BY CookieStep
  <2>2. CallsMove
    BY CallsStep DEF InductiveInv
  <2>3. TypeOK'
    BY TypeOKStep DEF InductiveInv
  <2>4. CallsAreExplained'
    BY <2>1, <2>2, CallsAreExplainedStep DEF InductiveInv
  <2>5. SocketIsExplained'
    BY <2>1, SocketIsExplainedStep DEF InductiveInv
  <2>6. ItemsAreExplained'
    BY <2>1, ItemsAreExplainedStep
  <2>7. StartIsAlone'
    BY <2>2, StartIsAloneStep
  <2>8. SignInMatchesCookie'
    BY SignInMatchesCookieStep
  <2> QED
    BY <2>3, <2>4, <2>5, <2>6, <2>7, <2>8 DEF InductiveInv
<1> QED
  BY <1>1, InitInductive, PTL DEF Spec

\* Every variable keeps its type; in particular no items are ever shown without a
\* user they belong to (App.jsx:160-215).
THEOREM TypeCorrect == Spec => []TypeOK
<1>1. InductiveInv => TypeOK
  BY DEF InductiveInv
<1> QED
  BY <1>1, InductiveInvariant, PTL

\* The page holds and listens to the session in the cookie, or to what was left at the
\* last change of the cookie: a call, the socket, or items that only a sign-out
\* removes (App.jsx:87-91, 136, 185-215).
THEOREM PageBelongsToSession == Spec => []PageIsTheSessions
<1>1. InductiveInv => PageIsTheSessions
  BY UsersAssumption
  DEF InductiveInv, ItemsAreExplained, SocketIsExplained, PageIsTheSessions
<1> QED
  BY <1>1, InductiveInvariant, PTL

\* What the page says of the sign-in agrees with the cookie, with the exceptions that
\* it names: a start or a sign-out that ended in an error, a sign-in answered with
\* another's session, and an answer behind the page (App.jsx:180-187 and 206-215).
THEOREM SignInIsTrue == Spec => []SignInMatchesCookie
<1>1. InductiveInv => SignInMatchesCookie
  BY DEF InductiveInv
<1> QED
  BY <1>1, InductiveInvariant, PTL

\* The message of a sign-in has a timer or a handleLogin that is still to set one, unless
\* a call after the last sign-in failed (App.jsx:189-203).
THEOREM MessageHasTimer == Spec => []FlashWillFade
<1>1. Init => FlashWillFade
  BY DEF Init, FlashWillFade
<1>2. InductiveInv => TypeOK
  BY DEF InductiveInv
<1>3. FlashWillFade /\ TypeOK /\ [Next]_vars => FlashWillFade'
  BY FlashWillFadeStep
<1> QED
  BY <1>1, <1>2, <1>3, InductiveInvariant, PTL DEF Spec

=============================================================================
