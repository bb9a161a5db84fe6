--------------------------- MODULE BrowserLogin ---------------------------
(***************************************************************************)
(* The browser login of the auth0 provider (authorization code with PKCE): *)
(* the tabs of one browser go through /login, the tenant and /callback,    *)
(* and share one jar with one state cookie and one session cookie.  A      *)
(* response changes the jar as it stands when it arrives.                  *)
(*                                                                         *)
(* A flow stands for the state, nonce and verifier one /login makes; the   *)
(* tenant hands the state back unchanged.  An account is good if its token *)
(* carries the claims the factory demands of an identity.  The browser     *)
(* follows a redirect with the cookies it has by then.                     *)
(***************************************************************************)
EXTENDS Naturals

CONSTANTS Tabs,
          MaxFlows         \* bound on the logins the browser starts

Accounts == {"good", "bad"}

VARIABLES
    keeps,      \* does the browser keep the cookies it is sent
    tab,        \* what each tab shows or waits for
    jar,        \* the cookies
    signedIn,   \* the tenant's own session: the account, or "none"
    started,    \* the number of logins started
    hops,       \* how often a tab went through /login since its user opened a page
    causes,     \* what has happened since to the login of the tab, from outside it
    refusals    \* the errors the tenant has answered to it since

vars == <<keeps, tab, jar, signedIn, started, hops, causes, refusals>>

\* flow is the login the tab is in; answer is the account the tenant issued its
\* code for, or "error".
Blank == [at |-> "idle", flow |-> 0, answer |-> "none"]

\* state is the flow of the state cookie, 0 if there is none; it and the session
\* can be unreadable, sealed with an earlier key.
NoCookies == [state |-> 0, seal |-> "fresh", session |-> "none"]

Init == /\ keeps \in BOOLEAN
        /\ tab = [t \in Tabs |-> Blank]
        /\ jar = NoCookies
        /\ signedIn = "none"
        /\ started = 0
        /\ hops = [t \in Tabs |-> 0]
        /\ causes = [t \in Tabs |-> 0]
        /\ refusals = [t \in Tabs |-> 0]

Resting == {"idle", "page", "landing", "error"}

\* The tabs whose login needs the state cookie, and those that need the session.
OnTheWay  == {t \in Tabs : tab[t].at \in {"tenant", "callback"}}
Returning == {t \in Tabs : tab[t].at = "return"}

\* Something outside them disturbs the logins of these tabs.
Disturbed(others) ==
    causes' = [t \in Tabs |-> IF t \in others /\ causes[t] < MaxFlows
                              THEN causes[t] + 1 ELSE causes[t]]

Goes(t, at) == tab' = [tab EXCEPT ![t].at = at]

\* A response sets cookies in a browser that keeps them.
Keep(cookies) == jar' = IF keeps THEN cookies ELSE NoCookies

WithState(flow)       == [jar EXCEPT !.state = flow, !.seal = "fresh"]
ClearState            == WithState(0)
WithSession           == [ClearState EXCEPT !.session = "live"]
ClearSession(cookies) == [cookies EXCEPT !.session = "none"]

\* validateToken: only an account with the claims becomes an identity.
Validated(account) == account = "good"

\* readSessionPayload: there is a cookie that decrypts, expired or not.
HasSession == jar.session \in {"live", "expired"}

\* Provider.Middleware before a page: a session shows it; without a session
\* cookie the plain root is the landing page; deny sends all else to /login.
Shown(to) ==
    IF jar.session = "live" THEN "page"
    ELSE IF jar.session = "none" /\ to = "root" THEN "landing" ELSE "login"

\* The user opens a page, or /login itself.
Open(t, to) ==
    /\ tab[t].at \in Resting
    /\ tab' = [tab EXCEPT ![t] = [Blank EXCEPT !.at = IF to = "login" THEN to ELSE Shown(to)]]
    /\ hops' = [hops EXCEPT ![t] = 0]
    /\ causes' = [causes EXCEPT ![t] = 0]
    /\ refusals' = [refusals EXCEPT ![t] = 0]
    /\ UNCHANGED <<keeps, jar, signedIn, started>>

\* The user opens the callback again, from the history of the tab.
Reopen(t) ==
    /\ tab[t].at \in Resting \ {"idle"} /\ tab[t].flow # 0 /\ tab[t].answer # "none"
    /\ Goes(t, "callback")
    /\ hops' = [hops EXCEPT ![t] = 1]
    /\ causes' = [causes EXCEPT ![t] = 1]
    /\ refusals' = [refusals EXCEPT ![t] = 0]
    /\ UNCHANGED <<keeps, jar, signedIn, started>>

\* LoginHandler: a flow of its own, in the one state cookie.
Login(t) ==
    /\ tab[t].at = "login" /\ started < MaxFlows
    /\ started' = started + 1
    /\ tab' = [tab EXCEPT ![t] = [Blank EXCEPT !.at = "tenant", !.flow = started + 1]]
    /\ Keep(WithState(started + 1))
    /\ hops' = [hops EXCEPT ![t] = @ + 1]
    /\ Disturbed(OnTheWay \ {t})
    /\ UNCHANGED <<keeps, signedIn, refusals>>

\* setStateCookie refuses a return_to that makes the cookie too large.
LoginFails(t) ==
    /\ tab[t].at = "login"
    /\ Goes(t, "error")
    /\ UNCHANGED <<keeps, jar, signedIn, started, hops, causes, refusals>>

\* The tenant answers with a code for the account it knows, or that signs in now,
\* or with an error.
Tenant(t, answer) ==
    /\ tab[t].at = "tenant"
    /\ answer = "error" \/ signedIn \in {"none", answer}
    /\ signedIn' = IF answer = "error" THEN signedIn ELSE answer
    /\ tab' = [tab EXCEPT ![t].at = "callback", ![t].answer = answer]
    /\ refusals' = IF answer = "error" THEN [refusals EXCEPT ![t] = @ + 1] ELSE refusals
    /\ UNCHANGED <<keeps, jar, started, hops, causes>>

\* loginTerminal: a code without any state cookie, and no session either, is of a
\* browser that does not keep cookies.
LoginTerminal_Never(t) == FALSE
LoginTerminal(t) == jar.state = 0 /\ tab[t].answer # "error" /\ ~HasSession

Readable == jar.state # 0 /\ jar.seal # "unreadable"
Matches(t) == Readable /\ jar.seal = "fresh" /\ jar.state = tab[t].flow

\* CallbackHandler before the code is used: through /login again ...
CallbackRetries(t) ==
    /\ tab[t].at = "callback"
    /\ ~LoginTerminal(t) /\ ~Matches(t)
    /\ Goes(t, "login")
    /\ UNCHANGED <<keeps, jar, signedIn, started, hops, causes, refusals>>

\* ... to the error page ...
CallbackFails(t) ==
    /\ tab[t].at = "callback"
    /\ \/ /\ LoginTerminal(t)
          /\ UNCHANGED <<jar, causes>>
       \/ /\ Matches(t) /\ tab[t].answer = "error"
          /\ Keep(ClearState)
          /\ Disturbed(OnTheWay \ {t})
    /\ Goes(t, "error")
    /\ UNCHANGED <<keeps, signedIn, started, hops, refusals>>

\* ... or on to the exchange of the code.
CallbackMatches(t) ==
    /\ tab[t].at = "callback"
    /\ Matches(t) /\ tab[t].answer # "error"
    /\ Goes(t, "exchange")
    /\ UNCHANGED <<keeps, jar, signedIn, started, hops, causes, refusals>>

\* exchange, and the response: the state cookie goes whichever it is by now; the
\* session is set for a token the factory accepts, unless it has expired already
\* or is too large for a cookie (setSessionCookie).
Exchange(t, exchanged, fits) ==
    /\ tab[t].at = "exchange"
    /\ IF exchanged /\ Validated(tab[t].answer) /\ fits
       THEN Keep(WithSession) /\ Goes(t, "return")
       ELSE Keep(ClearState) /\ Goes(t, "error")
    /\ Disturbed(OnTheWay)
    /\ UNCHANGED <<keeps, signedIn, started, hops, refusals>>

\* The browser follows the redirect to return_to, and the middleware looks at the
\* session it sends with it.
Return(t, to) ==
    /\ tab[t].at = "return"
    /\ Goes(t, Shown(to))
    /\ UNCHANGED <<keeps, jar, signedIn, started, hops, causes, refusals>>

\* LogoutHandler, and the tenant's own log-out behind its redirect.
Logout(t) ==
    /\ tab[t].at = "page"
    /\ Keep(ClearSession(ClearState))
    /\ signedIn' = "none"
    /\ Goes(t, "idle")
    /\ Disturbed(OnTheWay \cup Returning)
    /\ UNCHANGED <<keeps, started, hops, refusals>>

\* Time passes: a cookie is too old, first for the factory and then for the browser.
StateAges ==
    /\ jar.state # 0
    /\ jar' = IF jar.seal = "fresh" THEN [jar EXCEPT !.seal = "aged"] ELSE ClearState
    /\ Disturbed(OnTheWay)
    /\ UNCHANGED <<keeps, tab, signedIn, started, hops, refusals>>
SessionExpires ==
    /\ jar.session # "none"
    /\ jar' = IF jar.session = "live" THEN [jar EXCEPT !.session = "expired"] ELSE ClearSession(jar)
    /\ Disturbed(Returning)
    /\ UNCHANGED <<keeps, tab, signedIn, started, hops, refusals>>

\* The factory comes back with another sessionKey: what was sealed stays in the
\* jar and cannot be read.
KeyChanges ==
    /\ Readable \/ HasSession
    /\ jar' = [jar EXCEPT !.seal = IF jar.state = 0 THEN @ ELSE "unreadable",
                          !.session = IF @ = "none" THEN @ ELSE "unreadable"]
    /\ Disturbed(OnTheWay \cup Returning)
    /\ UNCHANGED <<keeps, tab, signedIn, started, hops, refusals>>

Next == \/ \E t \in Tabs :
              \/ \E to \in {"root", "deep", "login"} : Open(t, to)
              \/ Reopen(t)
              \/ Login(t) \/ LoginFails(t)
              \/ \E answer \in Accounts \cup {"error"} : Tenant(t, answer)
              \/ CallbackRetries(t) \/ CallbackFails(t) \/ CallbackMatches(t)
              \/ \E exchanged, fits \in BOOLEAN : Exchange(t, exchanged, fits)
              \/ \E to \in {"root", "deep"} : Return(t, to)
              \/ Logout(t)
        \/ StateAges
        \/ SessionExpires
        \/ KeyChanges

Spec == Init /\ [][Next]_vars

-----------------------------------------------------------------------------
(* Properties. *)

\* A browser that keeps its cookies does not go round in circles by itself: each
\* time a tab is sent through /login again, another tab, the age of a cookie, a
\* new key or its own user has caused it.  One that keeps none goes round only
\* for the errors of the tenant, and never with a code (loginTerminal).
Excuses(t) == causes[t] + (IF keeps THEN 0 ELSE refusals[t])
BouncesHaveCauses == \A t \in Tabs : hops[t] <= 1 + Excuses(t) \/ causes[t] = MaxFlows

\* A login that nothing disturbed and the tenant answered with an error ends at the
\* error page: "retrying produces the same answer" (CallbackHandler).
RefusalsEnd ==
    [][\A t \in Tabs : tab[t].at = "callback" /\ tab[t].answer = "error" /\ causes[t] = 0
                       => tab'[t].at # "login"]_vars

=============================================================================
