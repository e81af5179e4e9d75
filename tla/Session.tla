------------------------------ MODULE Session ------------------------------
(***************************************************************************)
(* Who is signed in: MainApp with its start, handleLogin and handleLogout,  *)
(* the login form, the session cookie of the browser and the identity of    *)
(* the ActionCable socket.  Calls overlap, and each continuation runs when  *)
(* its answer arrives, whatever the page shows by then.                     *)
(*                                                                          *)
(* Rails keeps the session in the cookie, so what it answers is settled by  *)
(* the cookie a call was sent with.  The mode is left out: HealthController *)
(* always says "full".                                                      *)
(***************************************************************************)
EXTENDS Integers

CONSTANTS
    Users,
    NoUser,        \* no session, no socket, or an empty email
    Placeholder,   \* 'user@example.com'
    MaxLogins,     \* bound: sign-ins
    MaxLogouts,    \* bound: sign-outs
    MaxPosts       \* bound: submissions of feeds

ASSUME UsersAssumption == NoUser \notin Users /\ Placeholder \notin Users /\ NoUser # Placeholder
ASSUME BoundsAssumption == MaxLogins \in Nat /\ MaxLogouts \in Nat /\ MaxPosts \in Nat

Attempts == 1 .. MaxLogins
Signouts == 1 .. MaxLogouts
Posts == 1 .. MaxPosts
Mounts == 0 .. MaxLogins   \* of the Dashboard: after the start (0) or after a sign-in
Sessions == Users \union {NoUser}

\* What Rails reads the session for: getFeedItems of the start of the page, of
\* handleLogin and of each mounted Dashboard, submitFeeds, and opening the WebSocket.
Boot == <<"boot", 0>>
Cable == <<"cable", 0>>
Calls ==
    {Boot, Cable} \union ({"login"} \X Attempts) \union ({"mount"} \X Mounts)
        \union ({"post"} \X Posts)

VARIABLES
    cookie,         \* whose session the browser's cookie holds
    authenticated,  \* "unknown" is null: the spinner is shown
    userEmail,
    feedItems,      \* the users whose items are in the array
    flash,          \* 'Signed in successfully' is shown
    fading,         \* setTimeouts that will clear it
    loginFailed,    \* the login form shows an error
    waiting,        \* the sign-in for which the login form is loading; 0: none
    posting,        \* the submission for which the Dashboard is loading; 0: none
    attempt,        \* each run of handleLogin: [step, typed, session]
    signout,        \* each run of handleLogout
    call,           \* each of the Calls: [step, owner]
    socket,         \* whose stream the open WebSocket gets
    monitoring,     \* the consumer opens its WebSocket when it has none
    \* history
    outlived,       \* users with a call, a socket or items left at the last change of the cookie
    swapped,        \* the cookie came with an answer that the page took for no sign-in
    inherited,      \* the last sign-in was answered with the session of another user
    unheard,        \* the last start or sign-out ended in an error
    cut             \* a sign-in ended in an error after the last one was answered

formVars == <<loginFailed, waiting, posting>>
pageVars == <<authenticated, userEmail, feedItems, flash, fading, formVars>>
callVars == <<attempt, signout, call>>
cableVars == <<socket, monitoring>>
cookieVars == <<cookie, outlived, swapped>>
history == <<outlived, swapped, inherited, unheard, cut>>
vars == <<cookie, pageVars, callVars, cableVars, history>>

At(step) == [step |-> step, typed |-> NoUser, session |-> NoUser]
Closed(step) == [step |-> step, owner |-> NoUser]
Asked(session) == [step |-> "asked", owner |-> session]

Open(x) == call[x].step = "asked"
Ended(x) == [call EXCEPT ![x] = Closed("ended")]

\* What the routes show; neither, but a spinner, before the start has ended.
OnLoginPage == authenticated = "no"
OnDashboard == authenticated = "yes"

\* u has a call or the socket open.
Listens(u) == socket = u \/ \E x \in Calls : Open(x) /\ call[x].owner = u

\* The cookie jar of the browser.  Whatever is open at a change, and what the page
\* keeps, is left from a session before it.
SetCookie(session, kept) ==
    /\ cookie' = session
    /\ outlived' = IF session = cookie THEN outlived ELSE kept \union {u \in Users : Listens(u)}

\* Rails sends the session again with its answer to a call that read it, errors
\* included, and the page is not told.  Without an answer the cookie stays.
AnswerMaySetCookie(session, kept) ==
    \/ UNCHANGED cookieVars
    \/ /\ SetCookie(session, kept)
       /\ swapped' = (swapped \/ session # cookie)

----------------------------------------------------------------------------
(* Bootstrap *)

\* The Dashboard is mounted: it loads the items and subscribes.
Mount(calls, k, session) == [calls EXCEPT ![<<"mount", k>>] = Asked(session)]

BootReturns ==
    /\ Open(Boot) /\ call[Boot].owner # NoUser
    /\ feedItems' = {call[Boot].owner}
    /\ authenticated' = "yes"
    /\ userEmail' = Placeholder
    /\ call' = Mount(Ended(Boot), 0, call[Boot].owner)
    /\ monitoring' = TRUE
    /\ UNCHANGED <<cookie, flash, fading, formVars, attempt, signout, socket, history>>

\* Without a session, and whenever the call ends in an error; no other call is open
\* yet that could have changed the cookie.
BootThrows ==
    /\ Open(Boot)
    /\ authenticated' = "no"
    /\ call' = Ended(Boot)
    /\ unheard' = TRUE
    /\ UNCHANGED <<cookie, userEmail, feedItems, flash, fading, formVars, attempt,
                   signout, cableVars, outlived, swapped, inherited, cut>>

----------------------------------------------------------------------------
(* LoginForm and handleLogin *)

\* The button is disabled while this form waits.  warden.authenticate! takes the
\* session that comes with the call, and looks at the password only without one.
handleSubmit(k, typed, right) ==
    /\ OnLoginPage /\ waiting = 0
    /\ attempt[k].step = "unused" /\ \A j \in 1 .. k - 1 : attempt[j].step # "unused"
    /\ loginFailed' = FALSE
    /\ waiting' = k
    /\ attempt' = [attempt EXCEPT ![k] =
           [step |-> "signing", typed |-> typed,
            session |-> IF cookie # NoUser THEN cookie ELSE IF right THEN typed ELSE NoUser]]
    /\ UNCHANGED <<cookie, authenticated, userEmail, feedItems, flash, fading, posting,
                   signout, call, cableVars, history>>

\* No form is shown, or a new one: without an error, and its button enabled.
NewLoginForm == loginFailed' = FALSE /\ waiting' = 0

\* api.login returns.  The email is what was typed, whoever the session is for.  A
\* Dashboard that another sign-in has mounted stays.
SignInReturns(k) ==
    /\ attempt[k].step = "signing" /\ attempt[k].session # NoUser
    /\ SetCookie(attempt[k].session, feedItems)
    /\ swapped' = FALSE
    /\ userEmail' = attempt[k].typed
    /\ inherited' = (attempt[k].session # attempt[k].typed)
    /\ authenticated' = "yes"
    /\ flash' = TRUE
    /\ NewLoginForm
    /\ attempt' = [attempt EXCEPT ![k] = At("items")]
    /\ LET asking == [call EXCEPT ![<<"login", k>>] = Asked(attempt[k].session)] IN
       IF OnDashboard
       THEN call' = asking /\ UNCHANGED monitoring
       ELSE call' = Mount(asking, k, attempt[k].session) /\ monitoring' = TRUE
    /\ unheard' = FALSE
    /\ cut' = FALSE
    /\ UNCHANGED <<feedItems, fading, posting, signout, socket>>

\* Refused, no answer, or one cut off after its headers.  The error reaches the form
\* that sent it, if that is still shown.
SignInThrows(k) ==
    /\ attempt[k].step = "signing"
    /\ attempt' = [attempt EXCEPT ![k] = At("ended")]
    /\ IF waiting = k THEN loginFailed' = TRUE /\ waiting' = 0
       ELSE UNCHANGED <<loginFailed, waiting>>
    /\ AnswerMaySetCookie(attempt[k].session, feedItems)
    /\ UNCHANGED <<authenticated, userEmail, feedItems, flash, fading, posting, signout,
                   call, cableVars, inherited, unheard, cut>>

\* A getFeedItems returns.  setFeedItems belongs to MainApp, so it works whatever is
\* mounted by then.
ItemsReturn(x) ==
    /\ Open(x) /\ call[x].owner # NoUser
    /\ call' = Ended(x)
    /\ feedItems' = {call[x].owner}
    /\ AnswerMaySetCookie(call[x].owner, {})
    /\ UNCHANGED <<authenticated, userEmail, flash, fading, formVars>>

\* The items stay as they are: no answer, or an error of Rails.
CallThrows(x) ==
    /\ Open(x)
    /\ call' = Ended(x)
    /\ AnswerMaySetCookie(call[x].owner, feedItems)
    /\ UNCHANGED <<authenticated, userEmail, feedItems, flash, fading, loginFailed, waiting>>

\* getFeedItems of handleLogin.
LoginItemsReturn(k) ==
    /\ ItemsReturn(<<"login", k>>)
    /\ attempt' = [attempt EXCEPT ![k] = At("health")]
    /\ UNCHANGED <<signout, cableVars, inherited, unheard, cut>>

\* The error reaches a form that is gone.
LoginItemsThrow(k) ==
    /\ CallThrows(<<"login", k>>)
    /\ attempt' = [attempt EXCEPT ![k] = At("ended")]
    /\ cut' = TRUE
    /\ UNCHANGED <<posting, signout, cableVars, inherited, unheard>>

\* Mutant: the flash has no timer.
NoTimer(k) ==
    /\ attempt[k].step = "health"
    /\ attempt' = [attempt EXCEPT ![k] = At("ended")]
    /\ UNCHANGED <<cookie, pageVars, signout, call, cableVars, history>>

\* getHealth, for which Rails reads no session.  navigate('/feeds') changes nothing on
\* the Dashboard; signed out, the route leads back to /login, to a form of its own.
HealthReturns(k) ==
    /\ attempt[k].step = "health"
    /\ attempt' = [attempt EXCEPT ![k] = At("ended")]
    /\ NewLoginForm
    /\ fading' = fading + 1
    /\ UNCHANGED <<cookie, authenticated, userEmail, feedItems, flash, posting,
                   signout, call, cableVars, history>>

HealthThrows(k) ==
    /\ attempt[k].step = "health"
    /\ attempt' = [attempt EXCEPT ![k] = At("ended")]
    /\ cut' = TRUE
    /\ UNCHANGED <<cookie, pageVars, signout, call, cableVars, outlived, swapped,
                   inherited, unheard>>

\* Mutant: the flash goes away without a timer of its own.
TimerFires ==
    /\ fading' = fading - 1
    /\ flash' = FALSE
    /\ UNCHANGED <<cookie, authenticated, userEmail, feedItems, formVars, callVars,
                   cableVars, history>>

\* Four seconds later.
FlashFades ==
    /\ fading > 0
    /\ fading' = fading - 1
    /\ flash' = FALSE
    /\ UNCHANGED <<cookie, authenticated, userEmail, feedItems, formVars, callVars,
                   cableVars, history>>

CloseFlash ==
    /\ flash
    /\ flash' = FALSE
    /\ UNCHANGED <<cookie, authenticated, userEmail, feedItems, fading, formVars,
                   callVars, cableVars, history>>

----------------------------------------------------------------------------
(* handleLogout *)

\* The button stays enabled while a sign-out is under way.
SignOut(s) ==
    /\ OnDashboard
    /\ signout[s] = "unused" /\ \A q \in 1 .. s - 1 : signout[q] # "unused"
    /\ signout' = [signout EXCEPT ![s] = "sent"]
    /\ UNCHANGED <<cookie, pageVars, attempt, call, cableVars, history>>

\* Mutant: the items stay.
KeepItems ==
    /\ authenticated' = "no"
    /\ userEmail' = NoUser
    /\ flash' = FALSE
    /\ posting' = 0
    /\ UNCHANGED <<feedItems, fading, loginFailed, waiting>>

\* Mutant: the page goes on as it is.
KeepPage == UNCHANGED pageVars

\* The rest of handleLogout.  The login form keeps its state if it was shown, and is
\* a new one if not.
LeavePage ==
    /\ authenticated' = "no"
    /\ userEmail' = NoUser
    /\ feedItems' = {}
    /\ flash' = FALSE
    /\ posting' = 0
    /\ UNCHANGED <<fading, loginFailed, waiting>>

\* The answer takes the session out of the cookie, and the page keeps nothing.
ClearCookie == SetCookie(NoUser, {}) /\ swapped' = FALSE

SignOutReturns(s) ==
    /\ signout[s] = "sent"
    /\ signout' = [signout EXCEPT ![s] = "ended"]
    /\ ClearCookie
    /\ LeavePage
    /\ unheard' = FALSE
    /\ UNCHANGED <<attempt, call, cableVars, inherited, cut>>

\* The error is swallowed.  Without an answer the cookie stays.
SignOutThrows(s) ==
    /\ signout[s] = "sent"
    /\ signout' = [signout EXCEPT ![s] = "ended"]
    /\ ClearCookie \/ UNCHANGED cookieVars
    /\ LeavePage
    /\ unheard' = TRUE
    /\ UNCHANGED <<attempt, call, cableVars, inherited, cut>>

----------------------------------------------------------------------------
(* What the Dashboard does to the session's state; the rest is Dashboard. *)

MountItemsReturn(k) ==
    /\ ItemsReturn(<<"mount", k>>)
    /\ UNCHANGED <<attempt, signout, cableVars, inherited, unheard, cut>>

MountItemsThrow(k) ==
    /\ CallThrows(<<"mount", k>>)
    /\ UNCHANGED <<posting, attempt, signout, cableVars, inherited, unheard, cut>>

\* The button of the FeedForm is disabled while its Dashboard is loading.
SubmitFeeds(p) ==
    /\ OnDashboard /\ posting = 0
    /\ call[<<"post", p>>].step = "none"
    /\ \A q \in 1 .. p - 1 : call[<<"post", q>>].step # "none"
    /\ posting' = p
    /\ call' = [call EXCEPT ![<<"post", p>>] = Asked(cookie)]
    /\ UNCHANGED <<cookie, authenticated, userEmail, feedItems, flash, fading, loginFailed,
                   waiting, attempt, signout, cableVars, history>>

\* With a result, an error, or no answer: here they are the same.
SubmitEnds(p) ==
    /\ CallThrows(<<"post", p>>)
    /\ posting' = IF posting = p THEN 0 ELSE posting
    /\ UNCHANGED <<attempt, signout, cableVars, inherited, unheard, cut>>

\* A broadcast on the stream of the socket; without the Dashboard there is no
\* subscription.
ReceiveItems ==
    /\ OnDashboard /\ socket # NoUser
    /\ feedItems' = feedItems \union {socket}
    /\ UNCHANGED <<cookie, authenticated, userEmail, flash, fading, formVars, callVars,
                   cableVars, history>>

----------------------------------------------------------------------------
(* The consumer of cable.js: one socket, which outlives subscriptions *)

OpenSocket ==
    /\ monitoring /\ socket = NoUser /\ ~Open(Cable)
    /\ call' = [call EXCEPT ![Cable] = Asked(cookie)]
    /\ UNCHANGED <<cookie, pageVars, attempt, signout, cableVars, history>>

\* Connection#connect finds the user in the session.
SocketOpens ==
    /\ Open(Cable) /\ call[Cable].owner # NoUser
    /\ socket' = call[Cable].owner
    /\ call' = Ended(Cable)
    /\ UNCHANGED <<cookie, pageVars, attempt, signout, monitoring, history>>

\* Without a session; the consumer does not try again before the next subscription.
SocketIsRefused ==
    /\ Open(Cable) /\ call[Cable].owner = NoUser
    /\ monitoring' = FALSE
    /\ call' = Ended(Cable)
    /\ UNCHANGED <<cookie, pageVars, attempt, signout, socket, history>>

SocketIsLost ==
    /\ socket # NoUser \/ Open(Cable)
    /\ socket' = NoUser
    /\ call' = Ended(Cable)
    /\ UNCHANGED <<cookie, pageVars, attempt, signout, monitoring, history>>

----------------------------------------------------------------------------
\* The page is opened, with or without a session from before.
Init ==
    /\ cookie \in Sessions
    /\ authenticated = "unknown"
    /\ userEmail = NoUser
    /\ feedItems = {}
    /\ flash = FALSE
    /\ fading = 0
    /\ loginFailed = FALSE
    /\ waiting = 0
    /\ posting = 0
    /\ attempt = [k \in Attempts |-> At("unused")]
    /\ signout = [s \in Signouts |-> "unused"]
    /\ call = [x \in Calls |-> IF x = Boot THEN Asked(cookie) ELSE Closed("none")]
    /\ socket = NoUser
    /\ monitoring = FALSE
    /\ outlived = {}
    /\ swapped = FALSE
    /\ inherited = FALSE
    /\ unheard = FALSE
    /\ cut = FALSE

BootEnds == BootReturns \/ BootThrows

SocketMoves == OpenSocket \/ SocketOpens \/ SocketIsRefused \/ SocketIsLost

\* What moves handleLogin once its calls are answered.
LoginRuns(k) ==
    \/ SignInReturns(k)
    \/ SignInThrows(k)
    \/ LoginItemsReturn(k)
    \/ LoginItemsThrow(k)
    \/ HealthReturns(k)
    \/ HealthThrows(k)

Next ==
    \/ BootEnds
    \/ \E k \in Attempts :
          \/ LoginRuns(k)
          \/ \E typed \in Users, right \in BOOLEAN : handleSubmit(k, typed, right)
    \/ FlashFades
    \/ CloseFlash
    \/ \E s \in Signouts : SignOut(s) \/ SignOutReturns(s) \/ SignOutThrows(s)
    \/ \E k \in Mounts : MountItemsReturn(k) \/ MountItemsThrow(k)
    \/ \E p \in Posts : SubmitFeeds(p) \/ SubmitEnds(p)
    \/ ReceiveItems
    \/ SocketMoves

Spec == Init /\ [][Next]_vars

----------------------------------------------------------------------------
(* Properties *)

AttemptSteps == {"unused", "signing", "items", "health", "ended"}
AttemptType == [Attempts -> [step : AttemptSteps, typed : Sessions, session : Sessions]]
CallType == [Calls -> [step : {"none", "asked", "ended"}, owner : Sessions]]

\* Every variable keeps its type.
TypeOK ==
    /\ cookie \in Sessions
    /\ authenticated \in {"unknown", "yes", "no"}
    /\ userEmail \in Sessions \union {Placeholder}
    /\ feedItems \subseteq Users
    /\ flash \in BOOLEAN
    /\ fading \in Nat
    /\ loginFailed \in BOOLEAN
    /\ waiting \in {0} \union Attempts
    /\ posting \in {0} \union Posts
    /\ attempt \in AttemptType
    /\ signout \in [Signouts -> {"unused", "sent", "ended"}]
    /\ call \in CallType
    /\ socket \in Sessions
    /\ monitoring \in BOOLEAN
    /\ outlived \subseteq Users
    /\ swapped \in BOOLEAN
    /\ inherited \in BOOLEAN
    /\ unheard \in BOOLEAN
    /\ cut \in BOOLEAN

\* What the page holds and listens to belongs to the session in the cookie.  The only
\* other things it can have belong to a user whose call, handshake or socket was open when
\* the cookie last changed, or whose items the page then kept, as it does at every change
\* but a sign-out (App.jsx:87-91, 136, 185-215, cable.js:4).
PageIsTheSessions ==
    \A u \in Users : u \in feedItems \/ u = socket => u = cookie \/ u \in outlived

\* The page says signed in only with a session, and names its user if it names any but
\* for a sign-in answered with the session it came with; it says signed out only
\* without a session, or after a start or a sign-out that ended in an error.  An answer
\* that changes the cookie behind the page is the only thing that breaks this, until
\* the next sign-in or sign-out (App.jsx:180-182, 187 and 206-215).
SignInMatchesCookie ==
    \/ swapped
    \/ authenticated = "unknown"
    \/ OnDashboard /\ cookie # NoUser /\ (inherited \/ userEmail \in {cookie, Placeholder})
    \/ OnLoginPage /\ (unheard \/ cookie = NoUser)

\* The message of a sign-in has a timer, or a handleLogin that is still to set one, so
\* that it goes away without a click, unless one of the calls that followed the last
\* sign-in failed (App.jsx:189-203).
FlashWillFade ==
    flash => fading > 0 \/ cut \/ \E k \in Attempts : attempt[k].step \in {"items", "health"}

=============================================================================
