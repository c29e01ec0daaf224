----------------------------- MODULE BrowserSession -----------------------------
(***************************************************************************)
(* The session of a browser whose tabs share one cookie jar                *)
(* (frontend/lib/api/client.ts, lib/auth/session.ts, middleware.ts, the    *)
(* login page, app-shell.tsx; identity/api/router.py). A call that is      *)
(* refused waits for a refresh of the access token, one for all the calls  *)
(* of its tab, and is made once more; what cannot be refreshed leads to    *)
(* the login page, which loads the tab anew.                               *)
(*                                                                         *)
(* How logins and password changes revoke refresh tokens is Sessions.      *)
(***************************************************************************)
EXTENDS Naturals, Sequences

CONSTANTS
    Tabs, People,
    Nobody,        \* null: nobody is signed in
    MaxLogins,     \* bound: logins
    MaxCallouts,   \* bound: calls of the API
    MaxHitches     \* bound: failures of the network, answers that are errors

ASSUME BrowserBounds ==
    MaxLogins \in Nat /\ MaxCallouts \in Nat /\ MaxHitches \in Nat /\ Nobody \notin People

VARIABLES
    jar,        \* the cookies access_token and refresh_token
    grants,     \* refresh tokens: whose, and whether they are valid
    tabs,       \* per tab: the page, the cached session, _refreshPromise
    callouts,   \* per call of apiFetch: how far it is
    hitches     \* failures so far

browserVars == <<jar, grants, tabs, callouts, hitches>>

-------------------------------------------------------------------------------
(* Types *)

Callouts == 1..MaxCallouts
NewTab == [page |-> "login", session |-> "unknown", refresh |-> "none", grant |-> 0, away |-> FALSE]
Unused == [pc |-> "unused", tab |-> Nobody, me |-> FALSE, as |-> Nobody]
Finished == [Unused EXCEPT !.pc = "over"]
NoCookies == [access |-> Nobody, fresh |-> FALSE, grant |-> 0]

GrantRow == [of : People, state : {"live", "ended"}]

TabState ==
    [page : {"login", "home"}, session : People \cup {Nobody, "unknown"},
     refresh : {"none", "asked", "granted", "denied"}, grant : Nat, away : BOOLEAN]

CalloutState ==
    [pc : {"unused", "sent", "waiting", "again", "over"}, tab : Tabs \cup {Nobody},
     me : BOOLEAN, as : People \cup {Nobody}]

BrowserTypeOK ==
    /\ grants \in Seq(GrantRow) /\ Len(grants) <= MaxLogins
    /\ jar \in [access : People \cup {Nobody}, fresh : BOOLEAN, grant : Nat]
    /\ tabs \in [Tabs -> TabState]
    /\ \A k \in {jar.grant} \cup {tabs[t].grant : t \in Tabs} : k <= Len(grants)
    /\ callouts \in [Callouts -> CalloutState]
    /\ hitches \in 0..MaxHitches

BrowserInit ==
    /\ jar = NoCookies
    /\ grants = << >>
    /\ tabs = [t \in Tabs |-> NewTab]
    /\ callouts = [c \in Callouts |-> Unused]
    /\ hitches = 0

Hitch ==
    /\ hitches < MaxHitches
    /\ hitches' = hitches + 1

\* Whom the API takes the sender of a call for: the access token is a JWT that
\* expires by itself.
Bearer == IF jar.fresh THEN jar.access ELSE Nobody

Ended(ks) ==
    [k \in DOMAIN grants |-> IF k \in ks THEN [grants[k] EXCEPT !.state = "ended"] ELSE grants[k]]

-------------------------------------------------------------------------------
(* Signing in and out, and time *)

\* The session of the user is replaced, and the answer names the user.
SignIn(t, u) ==
    LET earlier == {k \in DOMAIN grants : grants[k].of = u} IN
    /\ tabs[t].page = "login"
    /\ Len(grants) < MaxLogins
    /\ grants' = Append(Ended(earlier), [of |-> u, state |-> "live"])
    /\ jar' = [access |-> u, fresh |-> TRUE, grant |-> Len(grants) + 1]
    /\ tabs' = [tabs EXCEPT ![t].session = u, ![t].page = "home"]
    /\ UNCHANGED <<callouts, hitches>>

\* handleLogout posts to the origin of the page, which may serve the API or not:
\* whatever comes of it, the tab goes to the login page and keeps what it has
\* cached.
SignOut(t) ==
    /\ tabs[t].page = "home"
    /\ \/ grants' = Ended({jar.grant}) /\ jar' = NoCookies
       \/ UNCHANGED <<grants, jar>>
    /\ tabs' = [tabs EXCEPT ![t].page = "login"]
    /\ UNCHANGED <<callouts, hitches>>

\* The access token expires after 15 minutes, its cookie stays.
AccessExpires ==
    /\ jar.fresh
    /\ jar' = [jar EXCEPT !.fresh = FALSE]
    /\ UNCHANGED <<grants, tabs, callouts, hitches>>

\* A refresh token expires after 7 days, and its cookie with it, or is revoked
\* on another device.
GrantEnds(k) ==
    /\ grants[k].state = "live"
    /\ grants' = Ended({k})
    /\ \/ UNCHANGED jar
       \/ jar' = IF jar.grant = k THEN [jar EXCEPT !.grant = 0] ELSE jar
    /\ UNCHANGED <<tabs, callouts, hitches>>

-------------------------------------------------------------------------------
(* Pages *)

\* A page asks for the middleware's leave: it wants a refresh token, valid or not.
Admits(page) == page = "login" \/ jar.grant # 0

\* useAuthGuard, and the login page's redirect of who is signed in.
Guarded(t) ==
    LET to == IF tabs[t].session = Nobody THEN "login" ELSE "home" IN
    /\ tabs[t].session # "unknown"
    /\ tabs[t].page # to
    /\ Admits(to)
    /\ tabs' = [tabs EXCEPT ![t].page = to]
    /\ UNCHANGED <<jar, grants, callouts, hitches>>

\* The user opens a page: the middleware sends who has no refresh token away.
OpenPage(t) ==
    /\ tabs[t].page = "home"
    /\ ~Admits("home")
    /\ tabs' = [tabs EXCEPT ![t].page = "login"]
    /\ UNCHANGED <<jar, grants, callouts, hitches>>

-------------------------------------------------------------------------------
(* Calls: apiFetch, apiFetchBlob *)

\* useSession asks who is signed in (me); pages ask for their data.
CallOut(t, me) ==
    \E c \in Callouts :
        /\ callouts[c].pc = "unused"
        /\ \A d \in Callouts : d < c => callouts[d].pc # "unused"
        /\ me \/ tabs[t].page = "home"
        /\ callouts' = [callouts EXCEPT ![c] = [pc |-> "sent", tab |-> t, me |-> me, as |-> Bearer]]
        /\ UNCHANGED <<jar, grants, tabs, hitches>>

Settled(c) == callouts' = [callouts EXCEPT ![c] = Finished]

Cached(c) ==
    IF callouts[c].me THEN [tabs EXCEPT ![callouts[c].tab].session = callouts[c].as] ELSE tabs

\* An answer; on the login page a refusal is one too.
Answered(c) ==
    /\ \/ callouts[c].pc = "sent" /\ (callouts[c].as # Nobody \/ tabs[callouts[c].tab].page = "login")
       \/ callouts[c].pc = "again" /\ callouts[c].as # Nobody
    /\ Settled(c)
    /\ tabs' = Cached(c)
    /\ UNCHANGED <<jar, grants, hitches>>

\* _tryRefreshToken: a refresh under way is joined, else one is asked for.
Refused(c) ==
    LET t == callouts[c].tab IN
    /\ callouts[c].pc = "sent"
    /\ callouts[c].as = Nobody
    /\ tabs[t].page = "home"
    /\ callouts' = [callouts EXCEPT ![c].pc = "waiting"]
    /\ tabs' = IF tabs[t].refresh = "none"
               THEN [tabs EXCEPT ![t].refresh = "asked", ![t].grant = jar.grant] ELSE tabs
    /\ UNCHANGED <<jar, grants, hitches>>

\* window.location: the tab is loaded anew on the login page, and its calls are
\* forgotten. The jar is left alone.
SendAway(t) ==
    /\ tabs' = [tabs EXCEPT ![t] = [NewTab EXCEPT !.away = TRUE]]
    /\ callouts' = [c \in Callouts |->
           IF callouts[c].tab = t THEN Finished ELSE callouts[c]]

\* Any answer but a success to the call that was made again.
StillRefused(c) ==
    /\ callouts[c].pc = "again"
    /\ IF callouts[c].as = Nobody THEN UNCHANGED hitches ELSE Hitch
    /\ SendAway(callouts[c].tab)
    /\ UNCHANGED <<jar, grants>>

\* A call fails without an answer, or with another error: the page is told.
Unanswered(c) ==
    /\ callouts[c].pc \in {"sent", "again"}
    /\ Hitch
    /\ Settled(c)
    /\ UNCHANGED <<jar, grants, tabs>>

-------------------------------------------------------------------------------
(* The refresh of a tab *)

\* Mutant: a refresh token is good for one refresh.
Rotates(k) == [grants EXCEPT ![k].state = "used"]

\* refresh_access_token leaves the refresh token as it is.
Keeps(k) == grants

RefreshServed(t) ==
    LET k == tabs[t].grant IN
    /\ tabs[t].refresh = "asked"
    /\ IF k # 0 /\ grants[k].state = "live"
       THEN /\ grants' = Keeps(k)
            /\ tabs' = [tabs EXCEPT ![t].refresh = "granted"]
       ELSE /\ tabs' = [tabs EXCEPT ![t].refresh = "denied"]
            /\ UNCHANGED grants
    /\ UNCHANGED <<jar, callouts, hitches>>

\* The new cookie is there: every call that waits is made again.
Refreshed(t) ==
    LET u == grants[tabs[t].grant].of IN
    /\ tabs[t].refresh = "granted"
    /\ jar' = [jar EXCEPT !.access = u, !.fresh = TRUE]
    /\ tabs' = [tabs EXCEPT ![t].refresh = "none", ![t].grant = 0]
    /\ callouts' = [c \in Callouts |->
           IF callouts[c].pc = "waiting" /\ callouts[c].tab = t
           THEN [callouts[c] EXCEPT !.pc = "again", !.as = u] ELSE callouts[c]]
    /\ UNCHANGED <<grants, hitches>>

\* Denied, or nothing comes of it.
NotRefreshed(t) ==
    /\ tabs[t].refresh # "none"
    /\ IF tabs[t].refresh = "denied" THEN UNCHANGED hitches ELSE Hitch
    /\ SendAway(t)
    /\ UNCHANGED <<jar, grants>>

-------------------------------------------------------------------------------

BrowserNext ==
    \/ \E t \in Tabs :
           \/ \E u \in People : SignIn(t, u)
           \/ SignOut(t)
           \/ Guarded(t)
           \/ OpenPage(t)
           \/ \E me \in BOOLEAN : CallOut(t, me)
           \/ RefreshServed(t)
           \/ Refreshed(t)
           \/ NotRefreshed(t)
    \/ AccessExpires
    \/ \E k \in DOMAIN grants : GrantEnds(k)
    \/ \E c \in Callouts : Answered(c) \/ Refused(c) \/ StillRefused(c) \/ Unanswered(c)

BrowserSpec == BrowserInit /\ [][BrowserNext]_browserVars

-------------------------------------------------------------------------------
(* Properties *)

\* However the calls of the tabs are refused, a call that waits has a refresh to
\* wait for, and no tab is sent to the login page unless a session has ended or
\* something failed (_tryRefreshToken, apiFetch).
CallsCarryOn ==
    /\ \A c \in Callouts :
           callouts[c].pc = "waiting" => tabs[callouts[c].tab].refresh # "none"
    /\ \A t \in Tabs :
           tabs[t].away => hitches > 0 \/ \E k \in DOMAIN grants : grants[k].state = "ended"

\* "Revoke refresh token and clear session cookies" (api/router.py:640): after a
\* logout the jar holds no token until the next login.
SignedOutStays ==
    [][jar = NoCookies /\ jar' # NoCookies => Len(grants') > Len(grants)]_browserVars

\* The two cookies are of one user.
OnePerson ==
    jar.access # Nobody /\ jar.grant # 0 => grants[jar.grant].of = jar.access

\* Who is signed out is shown the login page (app-shell.tsx:151-158).
SignOutSignsOut ==
    [][\A t \in Tabs : SignOut(t) => grants' # grants \/ grants[jar.grant].state = "ended"]_browserVars

\* The login page of somebody whose session is over can be used: it does not send
\* to a page that sends back.
LoginIsOpen ==
    \A t \in Tabs : tabs[t].page = "login" /\ tabs[t].session \in People => jar.grant # 0
===============================================================================
