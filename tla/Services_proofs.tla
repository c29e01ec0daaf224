--------------------------- MODULE Services_proofs ----------------------------
(***************************************************************************)
(* What works beside the transactions of the business: the session of a    *)
(* browser, who judges a mail during a rollout, the turns of the           *)
(* assistants and the panel that shows them, and the evaluation of the     *)
(* classifier; for any number of tabs, calls, mails, turns, questions,     *)
(* samples and handlers.                                                   *)
(***************************************************************************)
EXTENDS BrowserSession, Judgement, ChatTurns, ChatPanel, Evaluation, FiniteSetTheorems, TLAPS

-------------------------------------------------------------------------------
(* The session of a browser *)

AnyEnded == \E k \in DOMAIN grants : grants[k].state = "ended"

\* A jar without a refresh token was never filled, or its session has ended; until
\* the first login every tab is on the login page.
JarSound ==
    /\ jar.grant = 0 => Len(grants) = 0 \/ AnyEnded
    /\ Len(grants) = 0 => \A t \in Tabs : tabs[t].page = "login"

\* A refresh is of a token, or will be denied, for a session that has ended.
TabSound(t) ==
    /\ tabs[t].refresh = "asked" => tabs[t].grant # 0 \/ AnyEnded
    /\ tabs[t].refresh = "granted" => tabs[t].grant # 0
    /\ tabs[t].refresh = "denied" => AnyEnded

CalloutSound(c) ==
    /\ callouts[c].pc \in {"sent", "waiting", "again"} => callouts[c].tab \in Tabs
    /\ callouts[c].pc = "again" => callouts[c].as \in People

BrowserInv ==
    /\ BrowserTypeOK
    /\ CallsCarryOn
    /\ JarSound
    /\ \A t \in Tabs : TabSound(t)
    /\ \A c \in Callouts : CalloutSound(c)

LEMMA FreshTab ==
  /\ NewTab \in TabState /\ NewTab.page = "login" /\ NewTab.refresh = "none"
  /\ NewTab.grant = 0 /\ NewTab.away = FALSE
BY DEF NewTab, TabState

LEMMA SettledCall ==
  /\ Unused \in CalloutState /\ Unused.pc = "unused"
  /\ Finished \in CalloutState /\ Finished.pc = "over"
BY DEF Unused, Finished, CalloutState

LEMMA BrowserStarts == BrowserInit => BrowserInv
<1> SUFFICES ASSUME BrowserInit PROVE BrowserInv
  OBVIOUS
<1>1. jar \in [access : People \cup {Nobody}, fresh : BOOLEAN, grant : Nat] /\ jar.grant = 0
  BY DEF BrowserInit, NoCookies
<1>2. /\ \A t \in Tabs : tabs[t] = NewTab
      /\ \A c \in Callouts : callouts[c] = Unused
      /\ Len(grants) = 0 /\ grants \in Seq(GrantRow)
  BY DEF BrowserInit
<1>3. BrowserTypeOK
  BY <1>1, <1>2, FreshTab, SettledCall, BrowserBounds DEF BrowserInit, BrowserTypeOK
<1>4. CallsCarryOn /\ JarSound
  BY <1>2, FreshTab, SettledCall DEF CallsCarryOn, JarSound
<1>5. (\A t \in Tabs : TabSound(t)) /\ \A c \in Callouts : CalloutSound(c)
  BY <1>2, FreshTab, SettledCall DEF TabSound, CalloutSound
<1> QED
  BY <1>3, <1>4, <1>5 DEF BrowserInv

\* A session that has ended stays so.
LEMMA GrantsEnd ==
  ASSUME BrowserInv, NEW ks
  PROVE  /\ Ended(ks) \in Seq(GrantRow) /\ Len(Ended(ks)) = Len(grants)
         /\ AnyEnded => \E k \in DOMAIN Ended(ks) : Ended(ks)[k].state = "ended"
         /\ \A k \in ks \cap DOMAIN grants :
                k \in DOMAIN Ended(ks) /\ Ended(ks)[k].state = "ended"
<1>1. grants \in Seq(GrantRow) /\ Len(grants) \in Nat /\ DOMAIN grants = 1..Len(grants)
  BY DEF BrowserInv, BrowserTypeOK
<1>2. \A k \in 1..Len(grants) : grants[k] \in GrantRow
  BY <1>1
<1> DEFINE ended == Ended(ks)
<1>3. /\ ended \in [1..Len(grants) -> GrantRow]
      /\ \A k \in 1..Len(grants) :
            ended[k].state = IF k \in ks THEN "ended" ELSE grants[k].state
  BY <1>1, <1>2 DEF Ended, GrantRow
<1> HIDE DEF ended
<1>4. ended \in Seq(GrantRow) /\ Len(ended) = Len(grants) /\ DOMAIN ended = 1..Len(grants)
  BY <1>1, <1>3
<1>5. AnyEnded => \E k \in DOMAIN ended : ended[k].state = "ended"
  BY <1>1, <1>3, <1>4 DEF AnyEnded
<1>6. \A k \in ks \cap DOMAIN grants : k \in DOMAIN ended /\ ended[k].state = "ended"
  BY <1>1, <1>3, <1>4
<1> QED
  BY <1>4, <1>5, <1>6 DEF ended

\* The jar or the refresh tokens change, and the page of a tab.
LEMMA JarMoves ==
  ASSUME BrowserInv, BrowserTypeOK', JarSound', AnyEnded => AnyEnded',
         \A t \in Tabs : /\ tabs'[t].refresh = tabs[t].refresh /\ tabs'[t].grant = tabs[t].grant
                         /\ tabs'[t].away = tabs[t].away,
         UNCHANGED <<callouts, hitches>>
  PROVE  BrowserInv'
<1>1. \A t \in Tabs : TabSound(t)'
  BY DEF BrowserInv, TabSound
<1>2. \A c \in Callouts : CalloutSound(c)'
  BY DEF BrowserInv, CalloutSound
<1>3. CallsCarryOn'
  <2>1. \A t \in Tabs : tabs'[t].away => hitches' > 0 \/ AnyEnded'
    BY DEF BrowserInv, CallsCarryOn, AnyEnded
  <2>2. \A c \in Callouts :
            callouts'[c].pc = "waiting" => tabs'[callouts'[c].tab].refresh # "none"
    BY DEF BrowserInv, CallsCarryOn, CalloutSound
  <2> QED
    BY <2>1, <2>2 DEF CallsCarryOn, AnyEnded
<1> QED
  BY <1>1, <1>2, <1>3 DEF BrowserInv

LEMMA SignInKeeps ==
  ASSUME BrowserInv, NEW t \in Tabs, NEW u \in People, SignIn(t, u)
  PROVE  BrowserInv'
<1> DEFINE earlier == {k \in DOMAIN grants : grants[k].of = u}
           ended == Ended(earlier)
           row == [of |-> u, state |-> "live"]
<1>1. /\ Len(grants) < MaxLogins
      /\ grants' = Append(ended, row)
      /\ jar' = [access |-> u, fresh |-> TRUE, grant |-> Len(grants) + 1]
      /\ tabs' = [tabs EXCEPT ![t].session = u, ![t].page = "home"]
      /\ UNCHANGED <<callouts, hitches>>
  BY DEF SignIn
<1>2. /\ ended \in Seq(GrantRow) /\ Len(ended) = Len(grants)
      /\ AnyEnded => \E k \in DOMAIN ended : ended[k].state = "ended"
  BY GrantsEnd
<1>3. row \in GrantRow /\ Len(grants) \in Nat
  BY DEF GrantRow, BrowserInv, BrowserTypeOK
<1> HIDE DEF ended, row
<1>4. /\ grants' \in Seq(GrantRow) /\ Len(grants') = Len(grants) + 1
      /\ DOMAIN ended = 1..Len(grants) /\ DOMAIN grants' = 1..(Len(grants) + 1)
      /\ \A k \in 1..Len(grants) : grants'[k] = ended[k]
  BY <1>1, <1>2, <1>3
<1>5. AnyEnded => AnyEnded'
  BY <1>2, <1>3, <1>4 DEF AnyEnded
<1>6. /\ tabs' \in [Tabs -> TabState]
      /\ \A o \in Tabs : /\ tabs'[o].refresh = tabs[o].refresh /\ tabs'[o].grant = tabs[o].grant
                         /\ tabs'[o].away = tabs[o].away
  BY ZenonT(60), <1>1 DEF BrowserInv, BrowserTypeOK, TabState
<1>7. jar' \in [access : People \cup {Nobody}, fresh : BOOLEAN, grant : Nat]
      /\ jar'.grant = Len(grants')
  BY <1>1, <1>3, <1>4
<1>8. BrowserTypeOK'
  <2>1. \A k \in {jar'.grant} \cup {tabs'[o].grant : o \in Tabs} : k <= Len(grants')
    <3>1. \A o \in Tabs : tabs[o].grant <= Len(grants) /\ tabs[o].grant \in Nat
      BY DEF BrowserInv, BrowserTypeOK, TabState
    <3> QED
      BY <1>3, <1>4, <1>6, <1>7, <3>1
  <2>2. Len(grants') <= MaxLogins
    BY <1>1, <1>3, <1>4, BrowserBounds
  <2> QED
    BY <1>1, <1>4, <1>6, <1>7, <2>1, <2>2 DEF BrowserInv, BrowserTypeOK
<1>9. JarSound'
  BY <1>3, <1>4, <1>7 DEF JarSound
<1> QED
  BY <1>1, <1>5, <1>6, <1>8, <1>9, JarMoves

LEMMA SignOutKeeps ==
  ASSUME BrowserInv, NEW t \in Tabs, SignOut(t)
  PROVE  BrowserInv'
<1>1. /\ tabs[t].page = "home" /\ tabs' = [tabs EXCEPT ![t].page = "login"]
      /\ UNCHANGED <<callouts, hitches>>
  BY DEF SignOut
<1>2. /\ tabs' \in [Tabs -> TabState]
      /\ \A o \in Tabs : /\ tabs'[o].refresh = tabs[o].refresh /\ tabs'[o].grant = tabs[o].grant
                         /\ tabs'[o].away = tabs[o].away
                         /\ tabs[o].page = "login" => tabs'[o].page = "login"
  BY ZenonT(60), <1>1 DEF BrowserInv, BrowserTypeOK, TabState
<1>3. grants \in Seq(GrantRow) /\ DOMAIN grants = 1..Len(grants) /\ Len(grants) \in Nat
      /\ jar.grant \in 0..Len(grants) /\ Len(grants) # 0
  BY <1>1 DEF BrowserInv, BrowserTypeOK, JarSound
<1>4. CASE grants' = Ended({jar.grant}) /\ jar' = NoCookies
  <2>1. /\ grants' \in Seq(GrantRow) /\ Len(grants') = Len(grants)
        /\ AnyEnded => AnyEnded'
        /\ jar.grant \in DOMAIN grants => AnyEnded'
    BY <1>4, GrantsEnd DEF AnyEnded
  <2>2. AnyEnded'
    BY <1>3, <2>1 DEF BrowserInv, JarSound
  <2>3. jar' \in [access : People \cup {Nobody}, fresh : BOOLEAN, grant : Nat] /\ jar'.grant = 0
    BY <1>4 DEF NoCookies
  <2>4. BrowserTypeOK'
    BY <1>1, <1>2, <1>3, <2>1, <2>3 DEF BrowserInv, BrowserTypeOK
  <2>5. JarSound'
    BY <1>3, <2>1, <2>2 DEF JarSound
  <2> QED
    BY <1>1, <1>2, <2>2, <2>4, <2>5, JarMoves
<1>5. CASE UNCHANGED <<grants, jar>>
  <2>1. BrowserTypeOK'
    BY <1>1, <1>2, <1>5 DEF BrowserInv, BrowserTypeOK
  <2>2. JarSound' /\ (AnyEnded => AnyEnded')
    BY <1>2, <1>5 DEF BrowserInv, JarSound, AnyEnded
  <2> QED
    BY <1>1, <1>2, <2>1, <2>2, JarMoves
<1> QED
  BY <1>4, <1>5 DEF SignOut

LEMMA ExpiryKeeps ==
  ASSUME BrowserInv
  PROVE  /\ AccessExpires => BrowserInv'
         /\ \A k \in DOMAIN grants : GrantEnds(k) => BrowserInv'
<1>1. /\ grants \in Seq(GrantRow) /\ DOMAIN grants = 1..Len(grants) /\ Len(grants) \in Nat
      /\ jar \in [access : People \cup {Nobody}, fresh : BOOLEAN, grant : Nat]
  BY DEF BrowserInv, BrowserTypeOK
<1>2. ASSUME AccessExpires PROVE BrowserInv'
  <2>1. /\ jar' = [jar EXCEPT !.fresh = FALSE]
        /\ UNCHANGED <<grants, tabs, callouts, hitches>>
    BY <1>2 DEF AccessExpires
  <2>2. jar' \in [access : People \cup {Nobody}, fresh : BOOLEAN, grant : Nat]
        /\ jar'.grant = jar.grant
    BY <1>1, <2>1
  <2>3. BrowserTypeOK'
    BY <2>1, <2>2 DEF BrowserInv, BrowserTypeOK
  <2>4. JarSound' /\ (AnyEnded => AnyEnded')
    BY <2>1, <2>2 DEF BrowserInv, JarSound, AnyEnded
  <2> QED
    BY <2>1, <2>3, <2>4, JarMoves
<1>3. ASSUME NEW k \in DOMAIN grants, GrantEnds(k) PROVE BrowserInv'
  <2>1. /\ grants' = Ended({k}) /\ UNCHANGED <<tabs, callouts, hitches>>
        /\ jar' = jar \/ jar' = [jar EXCEPT !.grant = 0]
    BY <1>3 DEF GrantEnds
  <2>2. /\ grants' \in Seq(GrantRow) /\ Len(grants') = Len(grants) /\ AnyEnded'
    BY <2>1, GrantsEnd DEF AnyEnded
  <2>3. jar' \in [access : People \cup {Nobody}, fresh : BOOLEAN, grant : Nat]
        /\ (jar'.grant = jar.grant \/ jar'.grant = 0)
    BY <1>1, <2>1
  <2>4. BrowserTypeOK'
    <3>1. \A i \in {jar'.grant} \cup {tabs'[t].grant : t \in Tabs} : i <= Len(grants')
      BY <1>1, <2>1, <2>2, <2>3 DEF BrowserInv, BrowserTypeOK
    <3> QED
      BY <2>1, <2>2, <2>3, <3>1 DEF BrowserInv, BrowserTypeOK
  <2>5. JarSound'
    BY <2>1, <2>2 DEF BrowserInv, JarSound
  <2> QED
    BY <2>1, <2>2, <2>4, <2>5, JarMoves
<1> QED
  BY <1>2, <1>3

\* A page is shown that the middleware admits.
LEMMA PagesKeep ==
  ASSUME BrowserInv, NEW t \in Tabs, Guarded(t) \/ OpenPage(t)
  PROVE  BrowserInv'
<1>1. PICK page \in {"login", "home"} :
        /\ tabs' = [tabs EXCEPT ![t].page = page]
        /\ page = "home" => jar.grant # 0
        /\ UNCHANGED <<jar, grants, callouts, hitches>>
  <2>1. CASE Guarded(t) /\ tabs[t].session = Nobody
    BY <2>1 DEF Guarded
  <2>2. CASE Guarded(t) /\ tabs[t].session # Nobody
    BY <2>2 DEF Guarded, Admits
  <2>3. CASE OpenPage(t)
    BY <2>3 DEF OpenPage
  <2> QED
    BY <2>1, <2>2, <2>3
<1>2. /\ tabs' \in [Tabs -> TabState]
      /\ \A o \in Tabs : /\ tabs'[o].refresh = tabs[o].refresh /\ tabs'[o].grant = tabs[o].grant
                         /\ tabs'[o].away = tabs[o].away
                         /\ tabs'[o].page = "home" => tabs[o].page = "home" \/ jar.grant # 0
  <2>1. tabs \in [Tabs -> TabState]
    BY DEF BrowserInv, BrowserTypeOK
  <2>2. tabs[t] \in TabState /\ [tabs[t] EXCEPT !.page = page] \in TabState
    BY <2>1 DEF TabState
  <2>3. tabs'[t] = [tabs[t] EXCEPT !.page = page] /\ \A o \in Tabs : o # t => tabs'[o] = tabs[o]
    BY <1>1, <2>1
  <2>4. tabs' \in [Tabs -> TabState]
    BY <1>1, <2>1, <2>2
  <2>5. /\ tabs'[t].refresh = tabs[t].refresh /\ tabs'[t].grant = tabs[t].grant
        /\ tabs'[t].away = tabs[t].away /\ tabs'[t].page = page
    BY <2>2, <2>3 DEF TabState
  <2> QED
    BY <1>1, <2>3, <2>4, <2>5
<1>3. BrowserTypeOK'
  BY <1>1, <1>2 DEF BrowserInv, BrowserTypeOK
<1>4. jar.grant # 0 => Len(grants) # 0
  BY DEF BrowserInv, BrowserTypeOK
<1>5. JarSound' /\ (AnyEnded => AnyEnded')
  <2>1. Len(grants) = 0 => \A o \in Tabs : tabs'[o].page = "login"
    BY <1>2, <1>3, <1>4 DEF BrowserInv, JarSound, BrowserTypeOK, TabState
  <2> QED
    BY <1>1, <2>1 DEF BrowserInv, JarSound, AnyEnded
<1> QED
  BY <1>1, <1>2, <1>3, <1>5, JarMoves

\* Calls and refreshes leave the jar and the refresh tokens alone, but for a cookie.
LEMMA CallsMove ==
  ASSUME BrowserInv, UNCHANGED <<grants>>, jar'.grant = jar.grant,
         jar' \in [access : People \cup {Nobody}, fresh : BOOLEAN, grant : Nat],
         tabs' \in [Tabs -> TabState], callouts' \in [Callouts -> CalloutState],
         hitches' \in hitches..MaxHitches,
         \A t \in Tabs : /\ tabs'[t].grant <= Len(grants)
                         /\ tabs'[t].page = "home" => tabs[t].page = "home"
                         /\ TabSound(t)'
                         /\ tabs'[t].away => tabs[t].away \/ hitches' > 0 \/ AnyEnded,
         \A c \in Callouts :
            /\ CalloutSound(c)'
            /\ callouts'[c].pc = "waiting" => tabs'[callouts'[c].tab].refresh # "none"
  PROVE  BrowserInv'
<1>1. BrowserTypeOK'
  BY BrowserBounds DEF BrowserInv, BrowserTypeOK
<1>2. JarSound'
  BY DEF BrowserInv, BrowserTypeOK, TabState, JarSound, AnyEnded
<1>3. CallsCarryOn'
  <2>1. hitches \in Nat /\ hitches' \in Nat /\ hitches <= hitches'
    BY BrowserBounds DEF BrowserInv, BrowserTypeOK
  <2>2. AnyEnded' <=> AnyEnded
    BY DEF AnyEnded
  <2>3. \A t \in Tabs : tabs'[t].away => hitches' > 0 \/ AnyEnded'
    BY <2>1, <2>2 DEF BrowserInv, CallsCarryOn, AnyEnded
  <2> QED
    BY <2>3 DEF CallsCarryOn, AnyEnded
<1> QED
  BY <1>1, <1>2, <1>3 DEF BrowserInv

LEMMA CallOutKeeps ==
  ASSUME BrowserInv, NEW t \in Tabs, NEW me \in BOOLEAN, CallOut(t, me)
  PROVE  BrowserInv'
<1>1. PICK c \in Callouts :
        /\ callouts' = [callouts EXCEPT ![c] = [pc |-> "sent", tab |-> t, me |-> me, as |-> Bearer]]
        /\ UNCHANGED <<jar, grants, tabs, hitches>>
  BY DEF CallOut
<1> DEFINE new == [pc |-> "sent", tab |-> t, me |-> me, as |-> Bearer]
<1>2. new \in CalloutState /\ new.pc = "sent" /\ new.tab = t
  BY DEF CalloutState, Bearer, BrowserInv, BrowserTypeOK
<1> HIDE DEF new
<1>3. /\ callouts' \in [Callouts -> CalloutState] /\ callouts'[c] = new
      /\ \A d \in Callouts \ {c} : callouts'[d] = callouts[d]
  BY <1>1, <1>2 DEF BrowserInv, BrowserTypeOK, new
<1>4. ASSUME NEW d \in Callouts
      PROVE  /\ CalloutSound(d)'
             /\ callouts'[d].pc = "waiting" => tabs'[callouts'[d].tab].refresh # "none"
  BY <1>1, <1>2, <1>3 DEF BrowserInv, CalloutSound, CallsCarryOn
<1>5. BrowserTypeOK'
  BY <1>1, <1>3 DEF BrowserInv, BrowserTypeOK
<1>6. JarSound' /\ \A o \in Tabs : TabSound(o)'
  BY <1>1 DEF BrowserInv, JarSound, TabSound, AnyEnded
<1>7. CallsCarryOn'
  BY <1>1, <1>4 DEF BrowserInv, CallsCarryOn
<1> QED
  BY <1>4, <1>5, <1>6, <1>7 DEF BrowserInv

\* An answer that comes, or does not: the call is over.
LEMMA AnswersKeep ==
  ASSUME BrowserInv, NEW c \in Callouts, Answered(c) \/ Unanswered(c)
  PROVE  BrowserInv'
<1>1. /\ callouts' = [callouts EXCEPT ![c] = Finished]
      /\ callouts[c].pc \in {"sent", "again"} /\ UNCHANGED <<jar, grants>>
      /\ tabs' = tabs \/ tabs' = [tabs EXCEPT ![callouts[c].tab].session = callouts[c].as]
      /\ hitches' = hitches \/ Hitch
  BY DEF Answered, Unanswered, Settled, Cached
<1>2. callouts[c].tab \in Tabs /\ callouts[c].as \in People \cup {Nobody}
  BY <1>1 DEF BrowserInv, CalloutSound, BrowserTypeOK, CalloutState
<1>3. /\ tabs' \in [Tabs -> TabState]
      /\ \A o \in Tabs : /\ tabs'[o].refresh = tabs[o].refresh /\ tabs'[o].grant = tabs[o].grant
                         /\ tabs'[o].away = tabs[o].away /\ tabs'[o].page = tabs[o].page
  <2>1. tabs \in [Tabs -> TabState]
    BY DEF BrowserInv, BrowserTypeOK
  <2>2. CASE tabs' = tabs
    BY <2>1, <2>2
  <2>3. CASE tabs' = [tabs EXCEPT ![callouts[c].tab].session = callouts[c].as]
    BY <1>2, <2>1, <2>3 DEF TabState
  <2> QED
    BY <1>1, <2>2, <2>3
<1>4. /\ callouts' \in [Callouts -> CalloutState]
      /\ \A d \in Callouts : callouts'[d] = callouts[d] \/ callouts'[d] = Finished
  BY <1>1, SettledCall DEF BrowserInv, BrowserTypeOK
<1>5. \A d \in Callouts :
            /\ CalloutSound(d)'
            /\ callouts'[d].pc = "waiting" => tabs'[callouts'[d].tab].refresh # "none"
  BY <1>3, <1>4, SettledCall DEF BrowserInv, CalloutSound, CallsCarryOn
<1>6. hitches' \in hitches..MaxHitches /\ hitches \in Nat
  BY <1>1, BrowserBounds DEF Hitch, BrowserInv, BrowserTypeOK
<1>7. \A o \in Tabs : TabSound(o)' /\ tabs'[o].grant <= Len(grants)
                    /\ (tabs'[o].away => tabs[o].away)
  BY <1>1, <1>3 DEF BrowserInv, BrowserTypeOK, TabSound, AnyEnded
<1>8. jar' \in [access : People \cup {Nobody}, fresh : BOOLEAN, grant : Nat] /\ jar'.grant = jar.grant
  BY <1>1 DEF BrowserInv, BrowserTypeOK
<1> QED
  BY <1>1, <1>3, <1>4, <1>5, <1>6, <1>7, <1>8, CallsMove

LEMMA RefusedKeeps ==
  ASSUME BrowserInv, NEW c \in Callouts, Refused(c)
  PROVE  BrowserInv'
<1> DEFINE t == callouts[c].tab
<1>1. /\ callouts[c].pc = "sent" /\ tabs[t].page = "home"
      /\ callouts' = [callouts EXCEPT ![c].pc = "waiting"]
      /\ tabs' = IF tabs[t].refresh = "none"
                 THEN [tabs EXCEPT ![t].refresh = "asked", ![t].grant = jar.grant] ELSE tabs
      /\ UNCHANGED <<jar, grants, hitches>>
  BY DEF Refused
<1>2. t \in Tabs /\ callouts[c] \in CalloutState /\ jar.grant \in Nat /\ jar.grant <= Len(grants)
  BY <1>1 DEF BrowserInv, CalloutSound, BrowserTypeOK
<1>3. /\ tabs' \in [Tabs -> TabState] /\ tabs'[t].refresh # "none"
      /\ \A o \in Tabs : /\ tabs'[o].away = tabs[o].away /\ tabs'[o].page = tabs[o].page
                         /\ tabs[o].refresh # "none" => tabs'[o].refresh = tabs[o].refresh
                         /\ \/ tabs'[o].refresh = tabs[o].refresh /\ tabs'[o].grant = tabs[o].grant
                            \/ tabs'[o].refresh = "asked" /\ tabs'[o].grant = jar.grant
  <2>1. tabs \in [Tabs -> TabState]
    BY DEF BrowserInv, BrowserTypeOK
  <2>2. CASE tabs[t].refresh # "none"
    BY <1>1, <2>1, <2>2
  <2>3. CASE tabs[t].refresh = "none"
    <3> DEFINE new == [tabs[t] EXCEPT !.refresh = "asked", !.grant = jar.grant]
    <3>1. tabs' = [tabs EXCEPT ![t] = new]
      BY <1>1, <1>2, <2>1, <2>3
    <3>2. /\ new \in TabState /\ new.refresh = "asked" /\ new.grant = jar.grant
          /\ new.away = tabs[t].away /\ new.page = tabs[t].page
      BY ZenonT(60), <1>2, <2>1 DEF TabState
    <3> HIDE DEF new
    <3> QED
      BY <1>2, <2>1, <2>3, <3>1, <3>2
  <2> QED
    BY <2>2, <2>3
<1>4. /\ callouts' \in [Callouts -> CalloutState]
      /\ callouts'[c].pc = "waiting" /\ callouts'[c].tab = t
      /\ \A d \in Callouts \ {c} : callouts'[d] = callouts[d]
  BY <1>1, <1>2 DEF BrowserInv, BrowserTypeOK, CalloutState
<1>5. ASSUME NEW d \in Callouts
      PROVE  /\ CalloutSound(d)'
             /\ callouts'[d].pc = "waiting" => tabs'[callouts'[d].tab].refresh # "none"
  <2>1. CASE d = c
    BY <1>2, <1>3, <1>4, <2>1 DEF CalloutSound
  <2>2. CASE d # c
    <3>1. callouts'[d] = callouts[d] /\ CalloutSound(d)
      BY <1>4, <2>2 DEF BrowserInv
    <3>2. callouts[d].pc = "waiting" => tabs[callouts[d].tab].refresh # "none"
      BY DEF BrowserInv, CallsCarryOn
    <3> QED
      BY <1>3, <3>1, <3>2 DEF CalloutSound
  <2> QED
    BY <2>1, <2>2
<1>6. jar.grant # 0 \/ AnyEnded
  BY <1>1, <1>2 DEF BrowserInv, JarSound
<1>7. ASSUME NEW o \in Tabs PROVE TabSound(o)' /\ tabs'[o].grant <= Len(grants)
  <2>1. TabSound(o) /\ (AnyEnded' <=> AnyEnded) /\ tabs[o].grant <= Len(grants)
    BY <1>1 DEF BrowserInv, AnyEnded, BrowserTypeOK
  <2> QED
    BY <1>2, <1>3, <1>6, <2>1 DEF TabSound
<1>8. /\ jar' \in [access : People \cup {Nobody}, fresh : BOOLEAN, grant : Nat]
      /\ jar'.grant = jar.grant /\ hitches' \in hitches..MaxHitches
  BY <1>1, BrowserBounds DEF BrowserInv, BrowserTypeOK
<1> QED
  BY <1>1, <1>3, <1>4, <1>5, <1>7, <1>8, CallsMove

\* A tab is sent to the login page; its calls are forgotten.
LEMMA SendAwayKeeps ==
  ASSUME BrowserInv, NEW t \in Tabs, SendAway(t), UNCHANGED <<jar, grants>>,
         hitches' \in hitches..MaxHitches, hitches' > 0 \/ AnyEnded
  PROVE  BrowserInv'
<1> DEFINE new == [NewTab EXCEPT !.away = TRUE]
<1>1. new \in TabState /\ new.page = "login" /\ new.refresh = "none" /\ new.grant = 0
  BY DEF NewTab, TabState
<1>2. /\ tabs' = [tabs EXCEPT ![t] = new]
      /\ callouts' = [c \in Callouts |->
            IF callouts[c].tab = t THEN Finished ELSE callouts[c]]
  BY DEF SendAway
<1> HIDE DEF new
<1>3. /\ tabs' \in [Tabs -> TabState] /\ tabs'[t] = new
      /\ \A o \in Tabs \ {t} : tabs'[o] = tabs[o]
  BY <1>1, <1>2 DEF BrowserInv, BrowserTypeOK
<1>4. callouts' \in [Callouts -> CalloutState]
  BY <1>2, SettledCall DEF BrowserInv, BrowserTypeOK
<1>5. ASSUME NEW c \in Callouts
      PROVE  /\ CalloutSound(c)'
             /\ callouts'[c].pc = "waiting" => tabs'[callouts'[c].tab].refresh # "none"
  <2>1. CASE callouts[c].tab = t
    BY <1>2, <2>1, SettledCall DEF CalloutSound
  <2>2. CASE callouts[c].tab # t
    <3>1. callouts'[c] = callouts[c] /\ CalloutSound(c)
      BY <1>2, <2>2 DEF BrowserInv
    <3>2. callouts[c].pc = "waiting" => tabs[callouts[c].tab].refresh # "none"
      BY DEF BrowserInv, CallsCarryOn
    <3> QED
      BY <1>3, <2>2, <3>1, <3>2 DEF CalloutSound
  <2> QED
    BY <2>1, <2>2
<1>6. ASSUME NEW o \in Tabs
      PROVE  /\ tabs'[o].grant <= Len(grants) /\ TabSound(o)'
             /\ tabs'[o].page = "home" => tabs[o].page = "home"
             /\ tabs'[o].away => tabs[o].away \/ hitches' > 0 \/ AnyEnded
  <2>1. TabSound(o) /\ (AnyEnded' <=> AnyEnded)
    BY DEF BrowserInv, AnyEnded
  <2>2. tabs[o].grant <= Len(grants) /\ Len(grants) \in Nat
    <3>1. grants \in Seq(GrantRow)
      BY DEF BrowserInv, BrowserTypeOK
    <3>2. tabs[o].grant <= Len(grants)
      BY DEF BrowserInv, BrowserTypeOK
    <3> QED
      BY <3>1, <3>2
  <2> QED
    BY <1>1, <1>3, <2>1, <2>2 DEF TabSound
<1>7. jar' \in [access : People \cup {Nobody}, fresh : BOOLEAN, grant : Nat] /\ jar'.grant = jar.grant
  BY DEF BrowserInv, BrowserTypeOK
<1> QED
  BY <1>3, <1>4, <1>5, <1>6, <1>7, CallsMove

LEMMA SentAwayKeep ==
  ASSUME BrowserInv
  PROVE  /\ \A c \in Callouts : StillRefused(c) => BrowserInv'
         /\ \A t \in Tabs : NotRefreshed(t) => BrowserInv'
<1>1. /\ Hitch => hitches' \in hitches..MaxHitches /\ hitches' > 0
      /\ UNCHANGED hitches => hitches' \in hitches..MaxHitches
  BY BrowserBounds DEF Hitch, BrowserInv, BrowserTypeOK
<1>2. ASSUME NEW c \in Callouts, StillRefused(c) PROVE BrowserInv'
  <2>1. callouts[c].tab \in Tabs /\ callouts[c].as \in People /\ callouts[c].as # Nobody
    BY <1>2, BrowserBounds DEF StillRefused, BrowserInv, CalloutSound
  <2> QED
    BY <1>1, <1>2, <2>1, SendAwayKeeps DEF StillRefused
<1>3. ASSUME NEW t \in Tabs, NotRefreshed(t) PROVE BrowserInv'
  <2>1. tabs[t].refresh = "denied" => AnyEnded
    BY DEF BrowserInv, TabSound
  <2> QED
    BY <1>1, <1>3, <2>1, SendAwayKeeps DEF NotRefreshed
<1> QED
  BY <1>2, <1>3

\* The refresh of a tab: served, then its calls are made again.
LEMMA RefreshKeeps ==
  ASSUME BrowserInv, NEW t \in Tabs, RefreshServed(t)
  PROVE  BrowserInv'
<1> DEFINE k == tabs[t].grant
<1>1. PICK outcome \in {"granted", "denied"} :
        /\ tabs' = [tabs EXCEPT ![t].refresh = outcome]
        /\ outcome = "granted" => k # 0
        /\ outcome = "denied" => k = 0 \/ grants[k].state # "live"
        /\ tabs[t].refresh = "asked" /\ UNCHANGED <<jar, grants, callouts, hitches>>
  BY DEF RefreshServed, Keeps
<1>2. /\ tabs' \in [Tabs -> TabState] /\ tabs'[t].refresh = outcome
      /\ \A o \in Tabs : /\ tabs'[o].grant = tabs[o].grant /\ tabs'[o].page = tabs[o].page
                         /\ tabs'[o].away = tabs[o].away
                         /\ o # t => tabs'[o].refresh = tabs[o].refresh
  <2>1. tabs \in [Tabs -> TabState]
    BY DEF BrowserInv, BrowserTypeOK
  <2>2. tabs[t] \in TabState /\ [tabs[t] EXCEPT !.refresh = outcome] \in TabState
    BY <2>1 DEF TabState
  <2>3. /\ tabs'[t] = [tabs[t] EXCEPT !.refresh = outcome]
        /\ \A o \in Tabs : o # t => tabs'[o] = tabs[o]
    BY <1>1, <2>1
  <2>4. tabs' \in [Tabs -> TabState]
    BY <1>1, <2>1, <2>2
  <2>5. /\ tabs'[t].refresh = outcome /\ tabs'[t].grant = tabs[t].grant
        /\ tabs'[t].away = tabs[t].away /\ tabs'[t].page = tabs[t].page
    BY <2>2, <2>3 DEF TabState
  <2> QED
    BY <2>3, <2>4, <2>5
<1>3. outcome = "denied" => AnyEnded
  <2>1. k = 0 => AnyEnded
    BY <1>1 DEF BrowserInv, TabSound
  <2>2. k # 0 => k \in DOMAIN grants /\ grants[k] \in GrantRow
    <3>1. tabs[t] \in TabState /\ k <= Len(grants)
      BY DEF BrowserInv, BrowserTypeOK
    <3>2. grants \in Seq(GrantRow)
      BY DEF BrowserInv, BrowserTypeOK
    <3>3. k \in Nat
      BY <3>1 DEF TabState
    <3> QED
      BY <3>1, <3>2, <3>3
  <2> QED
    BY <1>1, <2>1, <2>2 DEF AnyEnded, GrantRow
<1>4. ASSUME NEW o \in Tabs PROVE TabSound(o)' /\ tabs'[o].grant <= Len(grants)
  <2>1. TabSound(o) /\ (AnyEnded' <=> AnyEnded) /\ tabs[o].grant <= Len(grants)
    BY <1>1 DEF BrowserInv, AnyEnded, BrowserTypeOK
  <2> QED
    BY <1>1, <1>2, <1>3, <2>1 DEF TabSound
<1>5. \A c \in Callouts :
            /\ CalloutSound(c)'
            /\ callouts'[c].pc = "waiting" => tabs'[callouts'[c].tab].refresh # "none"
  BY <1>1, <1>2 DEF BrowserInv, CalloutSound, CallsCarryOn
<1>6. /\ jar' \in [access : People \cup {Nobody}, fresh : BOOLEAN, grant : Nat]
      /\ jar'.grant = jar.grant /\ hitches' \in hitches..MaxHitches
      /\ callouts' \in [Callouts -> CalloutState]
  BY <1>1, BrowserBounds DEF BrowserInv, BrowserTypeOK
<1> QED
  BY <1>1, <1>2, <1>4, <1>5, <1>6, CallsMove

LEMMA RefreshedKeeps ==
  ASSUME BrowserInv, NEW t \in Tabs, Refreshed(t)
  PROVE  BrowserInv'
<1> DEFINE u == grants[tabs[t].grant].of
           new == [tabs[t] EXCEPT !.refresh = "none", !.grant = 0]
<1>1. tabs[t] \in TabState /\ u \in People
  <2>1. tabs[t] \in TabState /\ tabs[t].refresh = "granted" /\ TabSound(t)
    BY DEF Refreshed, BrowserInv, BrowserTypeOK
  <2>2. grants \in Seq(GrantRow) /\ Len(grants) \in Nat /\ tabs[t].grant <= Len(grants)
    BY DEF BrowserInv, BrowserTypeOK
  <2>3. tabs[t].grant \in Nat /\ tabs[t].grant # 0
    BY <2>1 DEF TabSound, TabState
  <2>4. tabs[t].grant \in 1..Len(grants)
    BY <2>2, <2>3
  <2>5. grants[tabs[t].grant] \in GrantRow
    BY <2>2, <2>4
  <2> QED
    BY <2>1, <2>5 DEF GrantRow
<1>2. /\ jar' = [jar EXCEPT !.access = u, !.fresh = TRUE]
      /\ tabs' = [tabs EXCEPT ![t] = new]
      /\ callouts' = [c \in Callouts |->
           IF callouts[c].pc = "waiting" /\ callouts[c].tab = t
           THEN [callouts[c] EXCEPT !.pc = "again", !.as = u] ELSE callouts[c]]
      /\ UNCHANGED <<grants, hitches>>
  BY DEF Refreshed, BrowserInv, BrowserTypeOK
<1>3. /\ new \in TabState /\ new.refresh = "none" /\ new.grant = 0
      /\ new.page = tabs[t].page /\ new.away = tabs[t].away
  BY <1>1 DEF TabState
<1> HIDE DEF new, u
<1>4. tabs' \in [Tabs -> TabState] /\ tabs'[t] = new /\ \A o \in Tabs \ {t} : tabs'[o] = tabs[o]
  BY <1>2, <1>3 DEF BrowserInv, BrowserTypeOK
<1>5. callouts' \in [Callouts -> CalloutState]
  BY ZenonT(60), <1>1, <1>2 DEF BrowserInv, BrowserTypeOK, CalloutState
<1>6. ASSUME NEW c \in Callouts
      PROVE  /\ CalloutSound(c)'
             /\ callouts'[c].pc = "waiting" => tabs'[callouts'[c].tab].refresh # "none"
  <2>1. callouts[c] \in CalloutState /\ CalloutSound(c)
        /\ (callouts[c].pc = "waiting" => tabs[callouts[c].tab].refresh # "none")
    BY DEF BrowserInv, BrowserTypeOK, CallsCarryOn
  <2>2. CASE callouts[c].pc = "waiting" /\ callouts[c].tab = t
    BY <1>1, <1>2, <2>1, <2>2 DEF CalloutSound, CalloutState
  <2>3. CASE ~(callouts[c].pc = "waiting" /\ callouts[c].tab = t)
    BY <1>2, <1>4, <2>1, <2>3 DEF CalloutSound
  <2> QED
    BY <2>2, <2>3
<1>7. ASSUME NEW o \in Tabs
      PROVE  /\ TabSound(o)' /\ tabs'[o].grant <= Len(grants)
             /\ tabs'[o].page = tabs[o].page /\ tabs'[o].away = tabs[o].away
  <2>1. AnyEnded' <=> AnyEnded
    BY <1>2 DEF AnyEnded
  <2>2. TabSound(o) /\ tabs[o].grant <= Len(grants)
    BY DEF BrowserInv, BrowserTypeOK
  <2>3. grants \in Seq(GrantRow)
    BY DEF BrowserInv, BrowserTypeOK
  <2>4. Len(grants) \in Nat
    BY <2>3
  <2> QED
    BY <1>3, <1>4, <2>1, <2>2, <2>4 DEF TabSound
<1>8. jar' \in [access : People \cup {Nobody}, fresh : BOOLEAN, grant : Nat]
      /\ jar'.grant = jar.grant
  <2>1. jar \in [access : People \cup {Nobody}, fresh : BOOLEAN, grant : Nat]
    BY DEF BrowserInv, BrowserTypeOK
  <2> QED
    BY <1>1, <1>2, <2>1
<1>9. hitches' \in hitches..MaxHitches
  <2>1. hitches' = hitches /\ hitches \in 0..MaxHitches
    BY <1>2 DEF BrowserInv, BrowserTypeOK
  <2> QED
    BY <2>1, BrowserBounds
<1> QED
  BY <1>9, <1>2, <1>4, <1>5, <1>6, <1>7, <1>8, CallsMove

LEMMA BrowserNextKeeps ==
  ASSUME BrowserInv, [BrowserNext]_browserVars
  PROVE  BrowserInv'
<1>1. CASE UNCHANGED browserVars
  BY <1>1 DEF browserVars, BrowserInv, BrowserTypeOK, CallsCarryOn, JarSound, TabSound,
              CalloutSound, AnyEnded
<1> QED
  BY <1>1, SignInKeeps, SignOutKeeps, ExpiryKeeps, PagesKeep, CallOutKeeps, AnswersKeep,
     RefusedKeeps, SentAwayKeep, RefreshKeeps, RefreshedKeeps DEF BrowserNext

\* Why a tab may be sent away: a jar without a token, and a refresh that is denied,
\* are of a session that has ended.
THEOREM BrowserInductive == BrowserSpec => []BrowserInv
<1>1. BrowserInv /\ [BrowserNext]_browserVars => BrowserInv'
  BY BrowserNextKeeps
<1> QED
  BY <1>1, BrowserStarts, PTL DEF BrowserSpec

\* _tryRefreshToken and apiFetch: however many tabs and calls there are, a call that
\* waits has a refresh to wait for, and no tab is sent away without a cause.
THEOREM CallsAreCarriedOn == BrowserSpec => []CallsCarryOn
<1>1. BrowserInv => CallsCarryOn
  BY DEF BrowserInv
<1> QED
  BY <1>1, BrowserInductive, PTL

-------------------------------------------------------------------------------
(* Who judges a mail *)

Event == [of : Mails, plan : Stages, by : {"stable", "candidate"},
          stable : Verdicts, candidate : Verdicts]

\* A judgement holds its columns, and the plan it began with has decided who is asked.
JudgeSound(h) ==
    /\ DOMAIN judges[h] = {"pc", "mail", "plan", "tries", "stable", "candidate", "rule"}
    /\ judges[h].pc \in {"idle", "stable", "candidate", "told", "unavailable"}
    /\ judges[h].plan \in Stages
    /\ judges[h].stable \in Verdicts /\ judges[h].candidate \in Verdicts
    /\ judges[h].pc # "idle" => judges[h].mail \in Mails
    /\ judges[h].pc \in {"stable", "unavailable"} =>
           ~CandidateDecides(judges[h].plan, judges[h].mail)
    /\ judges[h].pc = "unavailable" => judges[h].stable = "failed"

\* Who was taken is what the plan says of the mail.
EventSound(i) ==
    events[i].by = IF CandidateDecides(events[i].plan, events[i].of) THEN "candidate" ELSE "stable"

VerdictTold(e) ==
    verdicts[e] # None /\ verdicts[e].mode # "stable" =>
        \E i \in DOMAIN events :
            /\ events[i].of = e
            /\ events[i].plan.mode = verdicts[e].mode
            /\ events[i][events[i].by] = verdicts[e].category
            /\ verdicts[e].mode = "shadow" => events[i].by = "stable"

JudgeInv ==
    /\ side \in [Mails -> 0..(Sides - 1)]
    /\ rollout \in Stages
    /\ judges = [h \in Handlers |-> judges[h]]
    /\ \A h \in Handlers : JudgeSound(h)
    /\ events \in Seq(Event)
    /\ \A i \in DOMAIN events : EventSound(i)
    /\ verdicts = [e \in Mails |-> verdicts[e]]
    /\ \A e \in Mails : VerdictTold(e)

LEMMA CategoriesAre == EmailCategory = {"recruitment", "interview", "uncategorized"}
<1>1. DOMAIN CategoryOrder = {1, 2, 3}
  BY DEF CategoryOrder
<1> QED
  <2>1. CategoryOrder[1] = "recruitment" /\ CategoryOrder[2] = "interview"
        /\ CategoryOrder[3] = "uncategorized"
    BY DEF CategoryOrder
  <2>2. EmailCategory = {CategoryOrder[i] : i \in DOMAIN CategoryOrder}
    BY DEF EmailCategory, ToSet
  <2> QED
    BY <1>1, <2>1, <2>2

\* _parse_category never comes back without a category.
LEMMA ParsedIsCategory ==
  ASSUME NEW text, text.mentions \subseteq EmailCategory
  PROVE  Parsed(text) \in EmailCategory
<1> DEFINE places == {i \in DOMAIN CategoryOrder : CategoryOrder[i] \in text.mentions}
<1>1. DOMAIN CategoryOrder = {1, 2, 3}
  BY DEF CategoryOrder
<1>2. CategoryOrder[1] = "recruitment" /\ CategoryOrder[2] = "interview"
      /\ CategoryOrder[3] = "uncategorized"
  BY DEF CategoryOrder
<1>3. text.mentions # {} => \E i \in places : \A j \in places : i <= j
  <2> SUFFICES ASSUME text.mentions # {} PROVE \E i \in places : \A j \in places : i <= j
    OBVIOUS
  <2>1. places \subseteq {1, 2, 3} /\ places # {}
    BY <1>1, <1>2, CategoriesAre
  <2> HIDE DEF places
  <2>2. CASE 1 \in places
    BY <2>1, <2>2
  <2>3. CASE 1 \notin places /\ 2 \in places
    BY <2>1, <2>3
  <2>4. CASE places = {3}
    BY <2>4
  <2> QED
    BY <2>1, <2>2, <2>3, <2>4
<1>4. text.mentions # {} => Foremost(text.mentions) \in EmailCategory
  <2> DEFINE first == CHOOSE i \in places : \A j \in places : i <= j
  <2> SUFFICES ASSUME text.mentions # {} PROVE CategoryOrder[first] \in EmailCategory
    BY DEF Foremost
  <2>1. first \in places
    BY <1>3
  <2> QED
    BY <2>1
<1> QED
  BY <1>4, CategoriesAre DEF Parsed

LEMMA JudgeStarts == JudgeInit => JudgeInv
<1> SUFFICES ASSUME JudgeInit PROVE JudgeInv
  OBVIOUS
<1>1. NoJudge.plan \in Stages
  BY SidesAreThere DEF NoJudge, Stages
<1>2. \A h \in Handlers : JudgeSound(h)
  BY <1>1 DEF JudgeInit, JudgeSound, NoJudge, Verdicts
<1> QED
  BY <1>1, <1>2 DEF JudgeInit, JudgeInv, VerdictTold

\* A step of one handler that leaves the table of events alone.
LEMMA JudgeGoesOn ==
  ASSUME JudgeInv, NEW h \in Handlers, NEW j,
         judges' = [judges EXCEPT ![h] = j],
         UNCHANGED <<side, rollout, events, verdicts>>,
         JudgeSound(h)'
  PROVE  JudgeInv'
<1>1. \A g \in Handlers : g # h => judges'[g] = judges[g]
  BY DEF JudgeInv
<1>2. \A g \in Handlers : JudgeSound(g)'
  <2> SUFFICES ASSUME NEW g \in Handlers, g # h PROVE JudgeSound(g)'
    OBVIOUS
  <2> QED
    BY <1>1 DEF JudgeInv, JudgeSound, CandidateDecides, InCanary
<1>3. \A i \in DOMAIN events' : EventSound(i)'
  BY DEF JudgeInv, EventSound, CandidateDecides, InCanary
<1>4. \A e \in Mails : VerdictTold(e)'
  BY DEF JudgeInv, VerdictTold
<1> QED
  BY <1>2, <1>3, <1>4 DEF JudgeInv

\* What one who was asked makes of the end of the calls.
LEMMA EndsSound ==
  ASSUME JudgeInv, NEW h \in Handlers, Calling(judges[h]), NEW answer \in Verdicts,
         judges' = [judges EXCEPT ![h] = Ends(judges[h], answer)],
         UNCHANGED <<side, rollout, events, verdicts>>
  PROVE  JudgeInv'
<1> DEFINE j == judges[h]
           next == [j EXCEPT ![j.pc] = answer, !.tries = 0]
<1>1. JudgeSound(h) /\ judges'[h] = Ends(j, answer)
  BY DEF JudgeInv
<1>2. DOMAIN j = {"pc", "mail", "plan", "tries", "stable", "candidate", "rule"}
  BY <1>1 DEF JudgeSound
<1>3. CASE j.pc = "stable"
  <2>1. /\ DOMAIN next = DOMAIN j
        /\ next.mail = j.mail /\ next.plan = j.plan
        /\ next.stable = answer /\ next.candidate = j.candidate
    BY <1>2, <1>3
  <2>2. j.mail \in Mails /\ j.plan \in Stages /\ j.candidate \in Verdicts
        /\ ~CandidateDecides(j.plan, j.mail)
    BY <1>1, <1>3 DEF JudgeSound
  <2> HIDE DEF next
  <2>3. \/ answer = "failed" /\ judges'[h] = [next EXCEPT !.pc = "unavailable"]
        \/ judges'[h] = [next EXCEPT !.pc = "candidate"]
        \/ judges'[h] = [next EXCEPT !.pc = "told"]
    BY <1>1 DEF Ends, next
  <2>4. JudgeSound(h)'
    BY <1>2, <2>1, <2>2, <2>3 DEF JudgeSound, CandidateDecides, InCanary
  <2> QED
    BY <2>4, JudgeGoesOn
<1>4. CASE j.pc = "candidate"
  <2>1. /\ DOMAIN next = DOMAIN j
        /\ next.mail = j.mail /\ next.plan = j.plan
        /\ next.stable = j.stable /\ next.candidate = answer
    BY <1>2, <1>4
  <2>2. j.mail \in Mails /\ j.plan \in Stages /\ j.stable \in Verdicts
    BY <1>1, <1>4 DEF JudgeSound
  <2> HIDE DEF next
  <2>3. judges'[h] = [next EXCEPT !.pc = "told"]
    BY <1>1, <1>4 DEF Ends, next
  <2>4. JudgeSound(h)'
    BY <1>2, <2>1, <2>2, <2>3 DEF JudgeSound, CandidateDecides, InCanary
  <2> QED
    BY <2>4, JudgeGoesOn
<1> QED
  BY <1>3, <1>4 DEF Calling

LEMMA JudgeConcludes ==
  ASSUME JudgeInv, NEW h \in Handlers, Conclude(h)
  PROVE  JudgeInv'
<1> DEFINE j == judges[h]
           told == [of |-> j.mail, plan |-> j.plan, by |-> By(j),
                    stable |-> j.stable, candidate |-> j.candidate]
           verdict == [mode |-> j.plan.mode, category |-> Selected(j), rule |-> j.rule]
<1>1. JudgeSound(h) /\ j.pc \in {"told", "unavailable"} /\ j.mail \in Mails
      /\ j.plan \in Stages
  BY DEF JudgeInv, JudgeSound, Conclude
<1>2. told \in Event /\ events \in Seq(Event)
  BY <1>1 DEF JudgeInv, Event, JudgeSound, By
<1>3. told.by = IF CandidateDecides(told.plan, told.of) THEN "candidate" ELSE "stable"
  BY DEF By
<1>4. told[told.by] = Selected(j)
  BY DEF By, Selected
<1>5. \/ events' = events
      \/ events' = Append(events, told)
  BY DEF Conclude
<1>6. /\ events' \in Seq(Event)
      /\ DOMAIN events \subseteq DOMAIN events'
      /\ \A i \in DOMAIN events : events'[i] = events[i]
      /\ \A i \in DOMAIN events' : i \in DOMAIN events \/ events'[i] = told
  <2>1. CASE events' = events
    BY <1>2, <2>1
  <2>2. CASE events' = Append(events, told)
    BY <1>2, <2>2
  <2> QED
    BY <1>5, <2>1, <2>2
<1>7. \A i \in DOMAIN events' : EventSound(i)'
  <2> SUFFICES ASSUME NEW i \in DOMAIN events' PROVE EventSound(i)'
    OBVIOUS
  <2>1. UNCHANGED side
    BY DEF Conclude
  <2>2. CASE i \in DOMAIN events
    BY <1>6, <2>1, <2>2 DEF EventSound, JudgeInv, CandidateDecides, InCanary
  <2>3. CASE events'[i] = told
    <3> HIDE DEF told
    <3> QED
      BY <1>3, <2>1, <2>3 DEF EventSound, CandidateDecides, InCanary
  <2> QED
    BY <1>6, <2>2, <2>3
<1>8. \A e \in Mails : verdicts'[e] = verdicts[e] \/ (e = j.mail /\ verdicts'[e] = verdict
                                                     /\ Selected(j) \in EmailCategory)
  BY DEF Conclude, JudgeInv
<1>9. verdicts' = [e \in Mails |-> verdicts'[e]]
  BY DEF Conclude, JudgeInv
<1>10. \A e \in Mails : VerdictTold(e)'
  <2> SUFFICES ASSUME NEW e \in Mails, verdicts'[e] # None, verdicts'[e].mode # "stable"
               PROVE  VerdictTold(e)'
    BY DEF VerdictTold
  <2>1. CASE verdicts'[e] = verdicts[e]
    <3>1. PICK i \in DOMAIN events :
              /\ events[i].of = e
              /\ events[i].plan.mode = verdicts[e].mode
              /\ events[i][events[i].by] = verdicts[e].category
              /\ verdicts[e].mode = "shadow" => events[i].by = "stable"
      BY <2>1 DEF JudgeInv, VerdictTold
    <3>2. i \in DOMAIN events' /\ events'[i] = events[i]
      BY <1>6
    <3> QED
      BY <2>1, <3>1, <3>2 DEF VerdictTold
  <2>2. CASE e = j.mail /\ verdicts'[e] = verdict /\ Selected(j) \in EmailCategory
    <3>1. j.pc = "told"
      <4>1. j.pc # "unavailable"
        BY <1>1, <2>2, CategoriesAre DEF JudgeSound, Selected
      <4> QED
        BY <1>1, <4>1
    <3>2. verdict.mode = j.plan.mode /\ j.plan.mode # "stable" /\ verdict.category = Selected(j)
      BY <2>2
    <3>3. events' = Append(events, told)
      BY <3>1, <3>2 DEF Conclude
    <3>4. Len(events) + 1 \in DOMAIN events' /\ events'[Len(events) + 1] = told
      BY <1>2, <3>3
    <3>5. told.of = e /\ told.plan.mode = verdict.mode
      BY <2>2
    <3>6. verdict.mode = "shadow" => told.by = "stable"
      BY DEF By, CandidateDecides
    <3> HIDE DEF told, verdict
    <3> QED
      BY <1>4, <2>2, <3>2, <3>4, <3>5, <3>6 DEF VerdictTold
  <2> QED
    BY <1>8, <2>1, <2>2
<1>11. \A g \in Handlers : JudgeSound(g)'
  <2>1. NoJudge.plan \in Stages
    BY SidesAreThere DEF NoJudge, Stages
  <2> SUFFICES ASSUME NEW g \in Handlers PROVE JudgeSound(g)'
    OBVIOUS
  <2>2. judges'[g] = judges[g] \/ judges'[g] = NoJudge
    BY DEF Conclude, JudgeInv
  <2>3. CASE judges'[g] = judges[g]
    BY <2>3 DEF JudgeInv, JudgeSound, CandidateDecides, InCanary, Conclude
  <2>4. CASE judges'[g] = NoJudge
    BY <2>1, <2>4 DEF JudgeSound, NoJudge, Verdicts
  <2> QED
    BY <2>2, <2>3, <2>4
<1> QED
  BY <1>6, <1>7, <1>9, <1>10, <1>11 DEF JudgeInv, Conclude

LEMMA JudgeInductive == JudgeInv /\ [JudgeNext]_judgeVars => JudgeInv'
<1> SUFFICES ASSUME JudgeInv, [JudgeNext]_judgeVars PROVE JudgeInv'
  OBVIOUS
<1>1. ASSUME NEW mode \in {"stable", "shadow", "canary", "full"}, NEW percent \in 0..Sides,
             Stage(mode, percent)
      PROVE  JudgeInv'
  <2>1. rollout' \in Stages
    BY <1>1 DEF Stage, Stages
  <2>2. \A h \in Handlers : JudgeSound(h)'
    BY <1>1 DEF Stage, JudgeInv, JudgeSound, CandidateDecides, InCanary
  <2>3. \A i \in DOMAIN events' : EventSound(i)'
    BY <1>1 DEF Stage, JudgeInv, EventSound, CandidateDecides, InCanary
  <2>4. \A e \in Mails : VerdictTold(e)'
    BY <1>1 DEF Stage, JudgeInv, VerdictTold
  <2> QED
    BY <1>1, <2>1, <2>2, <2>3, <2>4 DEF Stage, JudgeInv
<1>2. ASSUME NEW h \in Handlers, NEW e \in Mails, NEW scores \in Scorings, Consider(h, e, scores)
      PROVE  JudgeInv'
  <2> DEFINE j == [NoJudge EXCEPT
               !.pc = IF CandidateDecides(rollout, e) THEN "candidate" ELSE "stable",
               !.mail = e, !.plan = rollout, !.rule = BestRule(scores)]
  <2>1. /\ DOMAIN j = {"pc", "mail", "plan", "tries", "stable", "candidate", "rule"}
        /\ j.pc = IF CandidateDecides(rollout, e) THEN "candidate" ELSE "stable"
        /\ j.mail = e /\ j.plan = rollout /\ j.stable = "none" /\ j.candidate = "none"
    BY DEF NoJudge
  <2>2. judges' = [judges EXCEPT ![h] = j] /\ judges'[h] = j
    BY <1>2 DEF Consider, JudgeInv
  <2>3. UNCHANGED <<side, rollout, events, verdicts>>
    BY <1>2 DEF Consider
  <2> HIDE DEF j
  <2>4. JudgeSound(h)'
    BY <2>1, <2>2, <2>3 DEF JudgeSound, JudgeInv, CandidateDecides, InCanary, Verdicts
  <2> QED
    BY <2>2, <2>3, <2>4, JudgeGoesOn
<1>3. ASSUME NEW h \in Handlers, NEW response \in Responses, ProviderResponds(h, response)
      PROVE  JudgeInv'
  <2> DEFINE text == Extracted(response)
             answer == IF text = None THEN "failed" ELSE Parsed(text)
  <2>1. text # None => text.mentions = response.mentions
    BY DEF Extracted
  <2>2. answer \in Verdicts
    BY <2>1, ParsedIsCategory, AnswersMention DEF Verdicts
  <2>3. /\ Calling(judges[h]) /\ judges' = [judges EXCEPT ![h] = Ends(judges[h], answer)]
        /\ UNCHANGED <<side, rollout, events, verdicts>>
    BY <1>3 DEF ProviderResponds, Follows
  <2> QED
    BY <2>2, <2>3, EndsSound
<1>4. ASSUME NEW h \in Handlers, NoResponse(h)
      PROVE  JudgeInv'
  <2>1. /\ Calling(judges[h]) /\ UNCHANGED <<side, rollout, events, verdicts>>
        /\ \/ judges' = [judges EXCEPT ![h] = [judges[h] EXCEPT !.tries = @ + 1]]
           \/ judges' = [judges EXCEPT ![h] = Ends(judges[h], "failed")]
    BY <1>4 DEF NoResponse, Follows
  <2>2. CASE judges' = [judges EXCEPT ![h] = [judges[h] EXCEPT !.tries = @ + 1]]
    <3>1. judges'[h] = [judges[h] EXCEPT !.tries = @ + 1] /\ JudgeSound(h)
      BY <2>2 DEF JudgeInv
    <3>2. JudgeSound(h)'
      BY <2>1, <3>1 DEF JudgeSound, CandidateDecides, InCanary
    <3> QED
      BY <2>1, <2>2, <3>2, JudgeGoesOn
  <2>3. CASE judges' = [judges EXCEPT ![h] = Ends(judges[h], "failed")]
    <3>1. "failed" \in Verdicts
      BY DEF Verdicts
    <3> QED
      BY <2>1, <2>3, <3>1, EndsSound
  <2> QED
    BY <2>1, <2>2, <2>3
<1>5. ASSUME NEW h \in Handlers, Forget(h)
      PROVE  JudgeInv'
  <2>1. judges' = [judges EXCEPT ![h] = NoJudge] /\ judges'[h] = NoJudge
        /\ UNCHANGED <<side, rollout, events, verdicts>>
    BY <1>5 DEF Forget, JudgeInv
  <2>2. NoJudge.plan \in Stages
    BY SidesAreThere DEF NoJudge, Stages
  <2>3. JudgeSound(h)'
    BY <2>1, <2>2 DEF JudgeSound, NoJudge, Verdicts
  <2> QED
    BY <2>1, <2>3, JudgeGoesOn
<1>6. CASE UNCHANGED judgeVars
  <2>1. UNCHANGED <<side, rollout, judges, events, verdicts>>
    BY <1>6 DEF judgeVars
  <2> QED
    BY <2>1 DEF JudgeInv, JudgeSound, EventSound, VerdictTold, CandidateDecides, InCanary
<1> QED
  BY <1>1, <1>2, <1>3, <1>4, <1>5, <1>6, JudgeConcludes DEF JudgeNext

LEMMA PartitionIsKept == JudgeInv => RolloutKeepsItsWord
<1> SUFFICES ASSUME JudgeInv PROVE RolloutKeepsItsWord
  OBVIOUS
<1>1. ASSUME NEW i \in DOMAIN events, NEW k \in DOMAIN events, events[i].of = events[k].of,
             events[i].plan.mode = "canary", events[k].plan.mode = "canary",
             events[i].plan.percent <= events[k].plan.percent, events[i].by = "candidate"
      PROVE  events[k].by = "candidate"
  <2>1. /\ events[i].of \in Mails
        /\ events[i].plan.percent \in Int /\ events[k].plan.percent \in Int
    <3>1. events[i] \in Event /\ events[k] \in Event
      BY DEF JudgeInv
    <3> QED
      BY <3>1 DEF Event, Stages
  <2>2. side[events[i].of] \in Int
    BY <2>1 DEF JudgeInv
  <2>3. side[events[i].of] < events[i].plan.percent
    BY <1>1 DEF JudgeInv, EventSound, CandidateDecides, InCanary
  <2>4. side[events[k].of] < events[k].plan.percent
    BY <1>1, <2>1, <2>2, <2>3
  <2> QED
    BY <1>1, <2>4 DEF JudgeInv, EventSound, CandidateDecides, InCanary
<1>2. ASSUME NEW e \in Mails, verdicts[e] # None, verdicts[e].mode # "stable"
      PROVE  \E i \in DOMAIN events :
                 /\ events[i].of = e
                 /\ events[i].plan.mode = verdicts[e].mode
                 /\ events[i][events[i].by] = verdicts[e].category
                 /\ verdicts[e].mode = "shadow" => events[i].by = "stable"
  BY <1>2 DEF JudgeInv, VerdictTold
<1> QED
  BY <1>1, <1>2 DEF RolloutKeepsItsWord

\* A verdict published under a rollout has an event that records it, the shadow
\* publishes the stable classifier's, and the canary does not give back a mail it took
\* (classification_rollout.py), however judgements, retries and stages overlap.
THEOREM RolloutIsKept == JudgeSpec => []RolloutKeepsItsWord
<1>1. JudgeInv => RolloutKeepsItsWord
  BY PartitionIsKept
<1> QED
  BY <1>1, JudgeStarts, JudgeInductive, PTL DEF JudgeSpec

-------------------------------------------------------------------------------
(* Sequences *)

LEMMA FunctionIsSequence == ASSUME NEW S, NEW n \in Nat, NEW f \in [1..n -> S] PROVE f \in Seq(S)
OBVIOUS

LEMMA NoElement == ASSUME NEW S PROVE << >> \in Seq(S) /\ Len(<< >>) = 0 /\ DOMAIN << >> = {}
OBVIOUS

LEMMA OneElement ==
  ASSUME NEW S, NEW e \in S
  PROVE  /\ <<e>> \in Seq(S) /\ Len(<<e>>) = 1 /\ <<e>>[1] = e /\ DOMAIN <<e>> = 1..1
OBVIOUS

LEMMA OneMore ==
  ASSUME NEW S, NEW s \in Seq(S), NEW e \in S
  PROVE  /\ Append(s, e) \in Seq(S) /\ Len(Append(s, e)) = Len(s) + 1
         /\ DOMAIN Append(s, e) = 1..(Len(s) + 1)
         /\ Append(s, e)[Len(s) + 1] = e
         /\ \A i \in 1..Len(s) : Append(s, e)[i] = s[i]
OBVIOUS

LEMMA OneMoreIs ==
  ASSUME NEW S, NEW s \in Seq(S), NEW e \in S, NEW t, t = Append(s, e)
  PROVE  /\ t \in Seq(S) /\ Len(t) = Len(s) + 1 /\ DOMAIN t = 1..(Len(s) + 1)
         /\ t[Len(s) + 1] = e /\ \A i \in 1..Len(s) : t[i] = s[i]
BY OneMore

-------------------------------------------------------------------------------
(* The turns of the assistants *)

\* The columns of a chat session and of a turn that is over, whatever the bounds.
ChatSession == [of : Users, ended : BOOLEAN, count : Nat, rated : SUBSET Users]
TurnOver == [by : Users, room : Nat, how : {"ended", "failed", "left"}, ran : Nat,
             drafted : BOOLEAN, events : Nat, counted : BOOLEAN, audited : BOOLEAN]

\* The turns of a chat session that were counted in it.
Exchanges(r) == {i \in DOMAIN recorded : recorded[i].room = r /\ recorded[i].counted}

\* All that a stream can have said, at each point of its turn.
SaidSoFar(turn) ==
    CASE turn.pc \in {"gathering", "asking", "calling", "closing"} ->
             turn.sent = IF turn.words THEN <<"text">> ELSE << >>
      [] turn.pc = "ending" ->
             turn.sent = IF turn.draft # 0 THEN Append(Append(<<"text">>, "draft"), "done")
                         ELSE Append(<<"text">>, "done")
      [] turn.pc = "failed" -> turn.sent \in {Append(<< >>, "error"), Append(<<"text">>, "error")}
      [] OTHER -> FALSE

TurnTyped(turn) ==
    /\ DOMAIN turn = DOMAIN AtDesk
    /\ turn.pc \in {"idle", "gathering", "asking", "calling", "closing", "ending", "failed"}
    /\ turn.streams \in BOOLEAN /\ turn.words \in BOOLEAN /\ turn.spoiled \in BOOLEAN
    /\ turn.room \in Nat /\ turn.seen \in Nat /\ turn.ran \in Nat
    /\ turn.draft \in Nat /\ turn.drafts \in Nat
    /\ turn.pc # "idle" => turn.by \in Users
    /\ turn.pc = "idle" => turn.streams = FALSE

\* A turn holds a session of its own user only, with a count that was true once.
TurnOwned(turn) ==
    turn.room # 0 =>
        /\ turn.room \in DOMAIN rooms
        /\ rooms[turn.room].of = turn.by
        /\ turn.seen <= Cardinality(Exchanges(turn.room))

TurnSound(h) ==
    /\ TurnTyped(turns[h])
    /\ turns[h].streams => SaidSoFar(turns[h])
    /\ TurnOwned(turns[h])

RecordSound(i) ==
    recorded[i].events > 0 \/ recorded[i].counted =>
        /\ recorded[i].room \in DOMAIN rooms
        /\ rooms[recorded[i].room].of = recorded[i].by
        /\ recorded[i].events > 0 => recorded[i].events = recorded[i].ran

RoomSound(r) ==
    /\ rooms[r].rated \subseteq {rooms[r].of}
    /\ rooms[r].count <= Cardinality(Exchanges(r))

TurnInv ==
    /\ rooms \in Seq(ChatSession)
    /\ recorded \in Seq(TurnOver)
    /\ turns = [h \in Handlers |-> turns[h]]
    /\ \A h \in Handlers : TurnSound(h)
    /\ \A i \in DOMAIN recorded : RecordSound(i)
    /\ \A r \in DOMAIN rooms : RoomSound(r)

LEMMA DeskColumns ==
  /\ DOMAIN AtDesk = {"pc", "by", "streams", "room", "seen", "round", "calls", "ran", "words",
                      "draft", "drafts", "spoiled", "sent"}
  /\ AtDesk.pc = "idle" /\ AtDesk.streams = FALSE /\ AtDesk.words = FALSE
  /\ AtDesk.spoiled = FALSE /\ AtDesk.room = 0 /\ AtDesk.seen = 0 /\ AtDesk.ran = 0
  /\ AtDesk.draft = 0 /\ AtDesk.drafts = 0 /\ AtDesk.sent = << >>
BY DEF AtDesk

LEMMA DeskSound == TurnTyped(AtDesk) /\ TurnOwned(AtDesk) /\ AtDesk.streams = FALSE
<1>1. AtDesk.streams \in BOOLEAN /\ AtDesk.words \in BOOLEAN /\ AtDesk.spoiled \in BOOLEAN
  BY DEF AtDesk
<1>2. TurnTyped(AtDesk)
  BY <1>1, DeskColumns DEF TurnTyped
<1> QED
  BY <1>2, DeskColumns DEF TurnOwned

LEMMA ExchangesFinite ==
  ASSUME recorded \in Seq(TurnOver), NEW r
  PROVE  IsFiniteSet(Exchanges(r)) /\ Cardinality(Exchanges(r)) \in Nat
<1>1. IsFiniteSet(1..Len(recorded)) /\ DOMAIN recorded = 1..Len(recorded)
  BY FS_Interval
<1>2. Exchanges(r) \subseteq 1..Len(recorded)
  BY <1>1 DEF Exchanges
<1> QED
  BY <1>1, <1>2, FS_Subset, FS_CardinalityType

LEMMA TurnStarts == TurnInit => TurnInv
<1> SUFFICES ASSUME TurnInit PROVE TurnInv
  OBVIOUS
<1> QED
  BY DeskSound DEF TurnInit, TurnInv, TurnSound

\* A step of one turn, which leaves the tables alone.
LEMMA TurnGoesOn ==
  ASSUME TurnInv, NEW h \in Handlers, NEW turn, turns' = [turns EXCEPT ![h] = turn],
         UNCHANGED <<rooms, recorded>>, TurnTyped(turn),
         turn.streams => SaidSoFar(turn), TurnOwned(turn)
  PROVE  TurnInv'
<1>1. /\ turns'[h] = turn
      /\ \A g \in Handlers : g # h => turns'[g] = turns[g]
      /\ turns' = [g \in Handlers |-> turns'[g]]
  BY DEF TurnInv
<1>2. \A r : Exchanges(r)' = Exchanges(r)
  BY DEF Exchanges
<1>3. TurnOwned(turn)' /\ \A g \in Handlers : TurnOwned(turns[g]) => TurnOwned(turns[g])'
  BY <1>2 DEF TurnOwned
<1>4. \A g \in Handlers : TurnSound(g)'
  <2> SUFFICES ASSUME NEW g \in Handlers PROVE TurnSound(g)'
    OBVIOUS
  <2>1. CASE g = h
    BY <1>1, <1>3, <2>1 DEF TurnSound
  <2>2. CASE g # h
    BY <1>1, <1>3, <2>2 DEF TurnSound, TurnInv
  <2> QED
    BY <2>1, <2>2
<1>5. (\A i \in DOMAIN recorded' : RecordSound(i)') /\ \A r \in DOMAIN rooms' : RoomSound(r)'
  BY <1>2 DEF TurnInv, RecordSound, RoomSound
<1> QED
  BY <1>1, <1>4, <1>5 DEF TurnInv

\* One more event, or the same text going on.
LEMMA SayKeeps ==
  ASSUME NEW turn, DOMAIN turn = DOMAIN AtDesk, NEW e
  PROVE  /\ DOMAIN Say(turn, e) = DOMAIN turn
         /\ \A c \in DOMAIN turn : c # "sent" => Say(turn, e)[c] = turn[c]
BY DEF Say

LEMMA WordsKeep ==
  ASSUME NEW turn, DOMAIN turn = DOMAIN AtDesk
  PROVE  InWords(turn).pc = turn.pc
<1>1. "pc" \in DOMAIN turn
  BY DeskColumns
<1>2. Say(turn, "text")["pc"] = turn["pc"]
  BY <1>1, SayKeeps
<1> QED
  BY <1>2 DEF InWords

LEMMA SayText ==
  ASSUME NEW turn, DOMAIN turn = DOMAIN AtDesk, turn.streams,
         turn.sent = << >> \/ turn.sent = <<"text">>
  PROVE  Say(turn, "text").sent = <<"text">>
<1>1. CASE turn.sent = << >>
  <2>1. Say(turn, "text") = [turn EXCEPT !.sent = Append(@, "text")]
    BY <1>1 DEF Say
  <2>2. Append(<< >>, "text") = <<"text">>
    OBVIOUS
  <2> QED
    BY <1>1, <2>1, <2>2, DeskColumns
<1>2. CASE turn.sent = <<"text">>
  <2>1. turn.sent # << >> /\ Last(turn.sent) = "text"
    BY <1>2 DEF Last
  <2>2. Say(turn, "text") = turn
    BY <2>1 DEF Say
  <2> QED
    BY <1>2, <2>2
<1> QED
  BY <1>1, <1>2

LEMMA SayOther ==
  ASSUME NEW turn, DOMAIN turn = DOMAIN AtDesk, turn.streams, NEW e, e # "text"
  PROVE  Say(turn, e).sent = Append(turn.sent, e)
BY DeskColumns DEF Say

LEMMA GatherKeeps ==
  ASSUME TurnInv, NEW h \in Handlers, Gather(h)
  PROVE  TurnInv'
<1> DEFINE turn == [turns[h] EXCEPT !.pc = "asking"]
<1>1. TurnSound(h) /\ turns[h].pc = "gathering" /\ UNCHANGED <<rooms, recorded>>
  BY DEF TurnInv, Gather
<1>2. \E t : /\ turns' = [turns EXCEPT ![h] = t]
             /\ t = turn \/ t = PartMissing(turn)
  BY DEF Gather
<1>3. PICK t : /\ turns' = [turns EXCEPT ![h] = t]
               /\ t = turn \/ t = PartMissing(turn)
  BY <1>2
<1>4. /\ DOMAIN t = DOMAIN AtDesk /\ t.pc = "asking"
      /\ \A c \in DOMAIN AtDesk : c \notin {"pc", "spoiled"} => t[c] = turns[h][c]
      /\ t.spoiled \in BOOLEAN
  BY <1>1, <1>3, DeskColumns DEF TurnSound, TurnTyped, PartMissing
<1>5. /\ t.by = turns[h].by /\ t.streams = turns[h].streams /\ t.words = turns[h].words
      /\ t.room = turns[h].room /\ t.seen = turns[h].seen /\ t.ran = turns[h].ran
      /\ t.draft = turns[h].draft /\ t.drafts = turns[h].drafts /\ t.sent = turns[h].sent
  BY <1>4, DeskColumns
<1>6. TurnTyped(t)
  BY <1>1, <1>4, <1>5 DEF TurnSound, TurnTyped
<1>7. t.streams => SaidSoFar(t)
  BY <1>1, <1>4, <1>5 DEF TurnSound, SaidSoFar
<1>8. TurnOwned(t)
  BY <1>1, <1>5 DEF TurnSound, TurnOwned
<1> QED
  BY <1>1, <1>3, <1>6, <1>7, <1>8, TurnGoesOn

LEMMA AskKeeps ==
  ASSUME TurnInv, NEW h \in Handlers, NEW u \in Users, NEW r, NEW streams \in BOOLEAN,
         Ask(h, u, r, streams)
  PROVE  TurnInv'
<1> DEFINE own == OwnedRoom(u, r)
           t == [AtDesk EXCEPT !.pc = "gathering", !.by = u, !.streams = streams, !.room = own,
                               !.seen = IF own = 0 THEN 0 ELSE rooms[own].count]
<1>1. turns' = [turns EXCEPT ![h] = t] /\ UNCHANGED <<rooms, recorded>>
  BY DEF Ask
<1>2. rooms \in Seq(ChatSession) /\ DOMAIN rooms = 1..Len(rooms)
  BY DEF TurnInv
<1>3. own \in Nat /\ (own # 0 => own \in DOMAIN rooms /\ rooms[own].of = u)
  BY <1>2 DEF OwnedRoom
<1>4. own # 0 => rooms[own].count \in Nat /\ rooms[own].count <= Cardinality(Exchanges(own))
  <2>1. own # 0 => rooms[own] \in ChatSession
    BY <1>2, <1>3
  <2> QED
    BY <1>3, <2>1 DEF ChatSession, TurnInv, RoomSound
<1> HIDE DEF own
<1>5. /\ DOMAIN t = DOMAIN AtDesk /\ t.pc = "gathering" /\ t.by = u /\ t.streams = streams
      /\ t.room = own /\ t.seen = IF own = 0 THEN 0 ELSE rooms[own].count
      /\ t.words = AtDesk.words /\ t.sent = << >> /\ t.spoiled = AtDesk.spoiled
      /\ t.ran = 0 /\ t.draft = 0 /\ t.drafts = 0
  BY DeskColumns
<1> HIDE DEF t
<1>6. t.words = FALSE /\ t.words \in BOOLEAN /\ t.spoiled \in BOOLEAN /\ t.streams \in BOOLEAN
  BY <1>5, DeskSound, DeskColumns DEF TurnTyped
<1>7. t.seen \in Nat
  BY <1>4, <1>5
<1>8. TurnTyped(t)
  BY <1>3, <1>5, <1>6, <1>7 DEF TurnTyped
<1>9. SaidSoFar(t)
  BY <1>5, <1>6 DEF SaidSoFar
<1>10. TurnOwned(t)
  BY <1>3, <1>4, <1>5 DEF TurnOwned
<1> QED
  BY <1>1, <1>8, <1>9, <1>10, TurnGoesOn

LEMMA AnswerKeeps ==
  ASSUME TurnInv, NEW h \in Handlers, NEW words \in BOOLEAN, NEW n, ModelAnswers(h, words, n)
  PROVE  TurnInv'
<1> DEFINE turn == turns[h]
           spoken == [turn EXCEPT !.words = TRUE]
           heard == IF words THEN Say(spoken, "text") ELSE turn
           t == [heard EXCEPT !.round = @ + 1, !.calls = n,
                              !.pc = IF n = 0 THEN "closing" ELSE "calling"]
<1>1. turns' = [turns EXCEPT ![h] = t] /\ UNCHANGED <<rooms, recorded>> /\ turn.pc = "asking"
      /\ TurnSound(h)
  BY DEF ModelAnswers, TurnInv
<1>2. DOMAIN turn = DOMAIN AtDesk /\ (turn.streams => SaidSoFar(turn))
  BY <1>1 DEF TurnSound, TurnTyped
<1>3. /\ DOMAIN spoken = DOMAIN AtDesk /\ spoken.words = TRUE /\ spoken.sent = turn.sent
      /\ \A c \in DOMAIN AtDesk : c # "words" => spoken[c] = turn[c]
  BY <1>2, DeskColumns
<1> HIDE DEF spoken
<1>4. /\ DOMAIN heard = DOMAIN AtDesk
      /\ \A c \in DOMAIN AtDesk : c \notin {"words", "sent"} => heard[c] = turn[c]
  BY <1>2, <1>3, SayKeeps, DeskColumns
<1>5. heard.words \in BOOLEAN
  <2>1. CASE words
    <3>1. Say(spoken, "text").words = spoken.words
      BY <1>3, SayKeeps, DeskColumns
    <3>2. heard.words = TRUE
      BY <1>3, <2>1, <3>1
    <3> QED
      BY <3>2
  <2>2. CASE ~words
    BY <1>1, <2>2 DEF TurnSound, TurnTyped
  <2> QED
    BY <2>1, <2>2
<1>6. turn.streams => heard.sent = IF heard.words THEN <<"text">> ELSE << >>
  <2> SUFFICES ASSUME turn.streams PROVE heard.sent = IF heard.words THEN <<"text">> ELSE << >>
    OBVIOUS
  <2>1. turn.sent = IF turn.words THEN <<"text">> ELSE << >>
    BY <1>1, <1>2 DEF SaidSoFar
  <2>2. CASE words
    <3>1. spoken.streams
      BY <1>3, DeskColumns
    <3>2. Say(spoken, "text").sent = <<"text">>
      BY <1>3, <2>1, <3>1, SayText
    <3>3. Say(spoken, "text").words = TRUE
      BY <1>3, SayKeeps, DeskColumns
    <3> QED
      BY <2>2, <3>2, <3>3
  <2>3. CASE ~words
    BY <2>1, <2>3
  <2> QED
    BY <2>2, <2>3
<1> HIDE DEF heard
<1>7. /\ DOMAIN t = DOMAIN AtDesk /\ t.pc \in {"closing", "calling"}
      /\ \A c \in DOMAIN AtDesk : c \notin {"words", "sent", "round", "calls", "pc"} => t[c] = turn[c]
      /\ t.words = heard.words /\ t.sent = heard.sent
  BY <1>4, DeskColumns
<1> HIDE DEF t
<1>8. /\ t.by = turn.by /\ t.streams = turn.streams /\ t.spoiled = turn.spoiled
      /\ t.room = turn.room /\ t.seen = turn.seen /\ t.ran = turn.ran
      /\ t.draft = turn.draft /\ t.drafts = turn.drafts
  BY <1>7, DeskColumns
<1>9. TurnTyped(t)
  BY <1>1, <1>5, <1>7, <1>8 DEF TurnSound, TurnTyped
<1>10. t.streams => SaidSoFar(t)
  BY <1>6, <1>7, <1>8 DEF SaidSoFar
<1>11. TurnOwned(t)
  BY <1>1, <1>8 DEF TurnSound, TurnOwned
<1> QED
  BY <1>1, <1>9, <1>10, <1>11, TurnGoesOn

LEMMA ToolKeeps ==
  ASSUME TurnInv, NEW h \in Handlers, NEW result, RunTool(h, result)
  PROVE  TurnInv'
<1> DEFINE turn == turns[h]
           left == turn.calls - 1
           t == [turn EXCEPT !.calls = left,
                         !.ran = @ + 1,
                         !.drafts = IF result = "draft" THEN @ + 1 ELSE @,
                         !.draft = IF result = "draft" THEN turn.drafts + 1 ELSE @,
                         !.spoiled = @ \/ result = "db",
                         !.pc = IF left > 0 THEN "calling"
                                ELSE IF turn.round < MaxIterations THEN "asking"
                                ELSE "closing"]
<1>1. turns' = [turns EXCEPT ![h] = t] /\ UNCHANGED <<rooms, recorded>> /\ turn.pc = "calling"
      /\ TurnSound(h)
  BY DEF RunTool, TurnInv
<1>2. /\ DOMAIN turn = DOMAIN AtDesk /\ turn.ran \in Nat /\ turn.draft \in Nat
      /\ turn.drafts \in Nat
  BY <1>1 DEF TurnSound, TurnTyped
<1>3. /\ DOMAIN t = DOMAIN AtDesk /\ t.pc \in {"calling", "asking", "closing"}
      /\ t.ran = turn.ran + 1 /\ t.drafts \in {turn.drafts, turn.drafts + 1}
      /\ t.draft \in {turn.draft, turn.drafts + 1}
      /\ t.by = turn.by /\ t.streams = turn.streams /\ t.words = turn.words
      /\ t.room = turn.room /\ t.seen = turn.seen /\ t.sent = turn.sent
  BY <1>2, DeskColumns
<1>4. t.spoiled \in BOOLEAN
  <2>1. t.spoiled = (turn.spoiled \/ result = "db")
    BY <1>2, DeskColumns
  <2> QED
    BY <2>1
<1> HIDE DEF t
<1>5. TurnTyped(t)
  BY <1>1, <1>2, <1>3, <1>4 DEF TurnSound, TurnTyped
<1>6. t.streams => SaidSoFar(t)
  BY <1>1, <1>3 DEF TurnSound, SaidSoFar
<1>7. TurnOwned(t)
  BY <1>1, <1>3 DEF TurnSound, TurnOwned
<1> QED
  BY <1>1, <1>5, <1>6, <1>7, TurnGoesOn

LEMMA FailureKeeps ==
  ASSUME TurnInv, NEW h \in Handlers, ModelFails(h)
  PROVE  TurnInv'
<1> DEFINE turn == turns[h]
           said == Say(turn, "error")
           t == [said EXCEPT !.pc = "failed"]
<1>1. turns' = [turns EXCEPT ![h] = t] /\ UNCHANGED <<rooms, recorded>> /\ turn.pc = "asking"
      /\ TurnSound(h)
  BY DEF ModelFails, TurnInv
<1>2. DOMAIN turn = DOMAIN AtDesk /\ (turn.streams => SaidSoFar(turn))
  BY <1>1 DEF TurnSound, TurnTyped
<1>3. /\ DOMAIN said = DOMAIN AtDesk
      /\ \A c \in DOMAIN AtDesk : c # "sent" => said[c] = turn[c]
  BY <1>2, SayKeeps
<1>4. turn.streams => said.sent \in {Append(<< >>, "error"), Append(<<"text">>, "error")}
  <2> SUFFICES ASSUME turn.streams PROVE said.sent \in {Append(<< >>, "error"), Append(<<"text">>, "error")}
    OBVIOUS
  <2>1. turn.sent = << >> \/ turn.sent = <<"text">>
    BY <1>1, <1>2 DEF SaidSoFar
  <2>2. said.sent = Append(turn.sent, "error")
    BY <1>2, SayOther
  <2> QED
    BY <2>1, <2>2
<1> HIDE DEF said
<1>5. /\ DOMAIN t = DOMAIN AtDesk /\ t.pc = "failed" /\ t.sent = said.sent
      /\ \A c \in DOMAIN AtDesk : c \notin {"sent", "pc"} => t[c] = turn[c]
  BY <1>3, DeskColumns
<1> HIDE DEF t
<1>6. /\ t.by = turn.by /\ t.streams = turn.streams /\ t.words = turn.words
      /\ t.spoiled = turn.spoiled
      /\ t.room = turn.room /\ t.seen = turn.seen /\ t.ran = turn.ran
      /\ t.draft = turn.draft /\ t.drafts = turn.drafts
  BY <1>5, DeskColumns
<1>7. TurnTyped(t)
  BY <1>1, <1>5, <1>6 DEF TurnSound, TurnTyped
<1>8. t.streams => SaidSoFar(t)
  BY <1>4, <1>5, <1>6 DEF SaidSoFar
<1>9. TurnOwned(t)
  BY <1>1, <1>6 DEF TurnSound, TurnOwned
<1> QED
  BY <1>1, <1>7, <1>8, <1>9, TurnGoesOn

LEMMA TurnCloseKeeps ==
  ASSUME TurnInv, NEW h \in Handlers, Close(h)
  PROVE  TurnInv'
<1> DEFINE was == turns[h]
           turn == InWords(was)
           drafted == IF turn.draft = 0 THEN turn ELSE Say(turn, "draft")
           said == Say(drafted, "done")
           t == IF Audits(turn) /\ turn.spoiled THEN [turn EXCEPT !.pc = "failed"]
                ELSE [said EXCEPT !.pc = "ending"]
<1>1. turns' = [turns EXCEPT ![h] = t] /\ UNCHANGED <<rooms, recorded>> /\ was.pc = "closing"
      /\ TurnSound(h)
  <2>1. TurnSound(h)
    BY DEF TurnInv
  <2>2. UNCHANGED <<rooms, recorded>> /\ was.pc = "closing"
    <3>1. turns[h].pc = "closing"
      <4>1. InWords(turns[h]).pc = "closing"
        BY DEF Close
      <4> QED
        <5>1. DOMAIN turns[h] = DOMAIN AtDesk
          BY <2>1 DEF TurnSound, TurnTyped
        <5> QED
          BY <4>1, <5>1, WordsKeep
    <3> QED
      BY <3>1 DEF Close
  <2>3. turns' = [turns EXCEPT ![h] = t]
    BY Zenon DEF Close
  <2> QED
    BY <2>1, <2>2, <2>3
<1>2. DOMAIN was = DOMAIN AtDesk /\ (was.streams => SaidSoFar(was))
  BY <1>1 DEF TurnSound, TurnTyped
<1>3. /\ DOMAIN turn = DOMAIN AtDesk
      /\ \A c \in DOMAIN AtDesk : c # "sent" => turn[c] = was[c]
  BY <1>2, SayKeeps DEF InWords
<1>4. was.streams => turn.sent = <<"text">>
  BY <1>1, <1>2, SayText DEF InWords, SaidSoFar
<1>5. turn.streams = was.streams /\ turn.draft = was.draft
  BY <1>3, DeskColumns
<1>6. Audits(turn) => ~was.streams
  BY <1>5 DEF Audits
<1> HIDE DEF turn
<1>7. /\ DOMAIN drafted = DOMAIN AtDesk
      /\ \A c \in DOMAIN AtDesk : c # "sent" => drafted[c] = was[c]
  BY <1>3, SayKeeps
<1>8. was.streams => drafted.sent = IF was.draft # 0 THEN Append(<<"text">>, "draft") ELSE <<"text">>
  <2>1. CASE was.draft = 0
    BY <1>4, <1>5, <2>1
  <2>2. CASE was.draft # 0
    BY <1>3, <1>4, <1>5, <2>2, SayOther
  <2> QED
    BY <2>1, <2>2
<1>9. drafted.streams = was.streams
  BY <1>7, DeskColumns
<1> HIDE DEF drafted
<1>10. /\ DOMAIN said = DOMAIN AtDesk
       /\ \A c \in DOMAIN AtDesk : c # "sent" => said[c] = was[c]
  BY <1>7, SayKeeps
<1>11. was.streams => said.sent = Append(drafted.sent, "done")
  BY <1>7, <1>9, SayOther
<1> HIDE DEF said
<1>12. /\ DOMAIN t = DOMAIN AtDesk /\ t.pc \in {"failed", "ending"}
       /\ \A c \in DOMAIN AtDesk : c \notin {"sent", "pc"} => t[c] = was[c]
       /\ was.streams => t.pc = "ending" /\ t.sent = said.sent
  BY <1>3, <1>6, <1>10, DeskColumns
<1> HIDE DEF t
<1>13. /\ t.by = was.by /\ t.streams = was.streams /\ t.words = was.words
       /\ t.spoiled = was.spoiled
       /\ t.room = was.room /\ t.seen = was.seen /\ t.ran = was.ran
       /\ t.draft = was.draft /\ t.drafts = was.drafts
  BY <1>12, DeskColumns
<1>14. TurnTyped(t)
  BY <1>1, <1>12, <1>13 DEF TurnSound, TurnTyped
<1>15. t.streams => SaidSoFar(t)
  <2>1. was.streams => t.sent = IF was.draft # 0 THEN Append(Append(<<"text">>, "draft"), "done")
                                ELSE Append(<<"text">>, "done")
    BY <1>8, <1>11, <1>12
  <2> QED
    BY <1>12, <1>13, <2>1 DEF SaidSoFar
<1>16. TurnOwned(t)
  BY <1>1, <1>13 DEF TurnSound, TurnOwned
<1> QED
  BY <1>1, <1>14, <1>15, <1>16, TurnGoesOn

\* What Over leaves behind: one more row, of the turn's own user and session.
LEMMA OverRecords ==
  ASSUME TurnInv, NEW h \in Handlers, turns[h].pc # "idle",
         NEW how \in {"ended", "failed", "left"}, NEW kept \in BOOLEAN, Over(h, how, kept)
  PROVE  /\ recorded' \in Seq(TurnOver)
         /\ Len(recorded') = Len(recorded) + 1
         /\ \A i \in DOMAIN recorded : recorded'[i] = recorded[i]
         /\ recorded'[Len(recorded')].by = turns[h].by
         /\ recorded'[Len(recorded')].room = turns[h].room
         /\ recorded'[Len(recorded')].ran = turns[h].ran
         /\ recorded'[Len(recorded')].events = IF kept /\ turns[h].room # 0 THEN turns[h].ran ELSE 0
         /\ (recorded'[Len(recorded')].counted <=> kept /\ turns[h].room # 0 /\ how = "ended")
<1> DEFINE turn == turns[h]
           row == [by |-> turn.by, room |-> turn.room, how |-> how, ran |-> turn.ran,
                   drafted |-> turn.draft # 0,
                   events |-> IF kept /\ turn.room # 0 THEN turn.ran ELSE 0,
                   counted |-> kept /\ turn.room # 0 /\ how = "ended",
                   audited |-> kept /\ how = "ended" /\ Audits(turn)]
<1>1. recorded' = Append(recorded, row) /\ recorded \in Seq(TurnOver)
  BY DEF Over, TurnInv
<1>2. turn.by \in Users /\ turn.room \in Nat /\ turn.ran \in Nat
  BY DEF TurnInv, TurnSound, TurnTyped
<1>3. (IF kept /\ turn.room # 0 THEN turn.ran ELSE 0) \in Nat
  BY <1>2
<1>4. /\ (turn.draft # 0) \in BOOLEAN /\ (kept /\ turn.room # 0 /\ how = "ended") \in BOOLEAN
      /\ (kept /\ how = "ended" /\ Audits(turn)) \in BOOLEAN
  BY DEF Audits
<1>5. row \in TurnOver
  BY <1>2, <1>3, <1>4, Zenon DEF TurnOver
<1>6. /\ row.by = turn.by /\ row.room = turn.room /\ row.ran = turn.ran
      /\ row.events = IF kept /\ turn.room # 0 THEN turn.ran ELSE 0
      /\ (row.counted <=> kept /\ turn.room # 0 /\ how = "ended")
  OBVIOUS
<1> HIDE DEF row
<1>7. /\ recorded' \in Seq(TurnOver) /\ Len(recorded') = Len(recorded) + 1
      /\ \A i \in DOMAIN recorded : recorded'[i] = recorded[i]
      /\ recorded'[Len(recorded')] = row
  BY <1>1, <1>5
<1> QED
  BY <1>6, <1>7

LEMMA OverKeeps ==
  ASSUME TurnInv, NEW h \in Handlers, turns[h].pc # "idle",
         NEW how \in {"ended", "failed", "left"}, NEW kept \in BOOLEAN, Over(h, how, kept),
         rooms' = IF kept /\ turns[h].room # 0 /\ how = "ended"
                  THEN [rooms EXCEPT ![turns[h].room].count = turns[h].seen + 1] ELSE rooms
  PROVE  TurnInv'
<1> DEFINE turn == turns[h]
           n == Len(recorded)
           counts == kept /\ turn.room # 0 /\ how = "ended"
<1>1. TurnTyped(turn) /\ TurnOwned(turn)
  BY DEF TurnInv, TurnSound
<1>2. /\ rooms \in Seq(ChatSession) /\ recorded \in Seq(TurnOver)
      /\ n \in Nat /\ DOMAIN recorded = 1..n
  BY DEF TurnInv
<1>3. /\ recorded' \in Seq(TurnOver) /\ DOMAIN recorded' = 1..(n + 1)
      /\ \A i \in 1..n : recorded'[i] = recorded[i]
      /\ recorded'[n + 1].by = turn.by /\ recorded'[n + 1].room = turn.room
      /\ recorded'[n + 1].ran = turn.ran
      /\ recorded'[n + 1].events = IF kept /\ turn.room # 0 THEN turn.ran ELSE 0
      /\ (recorded'[n + 1].counted <=> counts)
  BY <1>2, OverRecords
<1>4. turn.seen \in Nat /\ turn.room \in Nat /\ turn.ran \in Nat
  BY <1>1 DEF TurnTyped
<1>5. /\ rooms' \in Seq(ChatSession) /\ DOMAIN rooms' = DOMAIN rooms
      /\ \A r \in DOMAIN rooms : /\ rooms'[r].of = rooms[r].of
                                 /\ rooms'[r].rated = rooms[r].rated
                                 /\ rooms'[r].count = IF counts /\ r = turn.room
                                                      THEN turn.seen + 1 ELSE rooms[r].count
  <2>1. CASE counts
    <3>1. turn.room \in DOMAIN rooms
      BY <1>1, <2>1 DEF TurnOwned
    <3>2. rooms' = [rooms EXCEPT ![turn.room].count = turn.seen + 1]
      BY <2>1
    <3>3. \A r \in DOMAIN rooms : rooms[r] \in ChatSession
      BY <1>2
    <3>4. \A r \in DOMAIN rooms : rooms'[r] \in ChatSession
      BY <1>4, <3>1, <3>2, <3>3 DEF ChatSession
    <3>5. DOMAIN rooms' = DOMAIN rooms /\ DOMAIN rooms = 1..Len(rooms) /\ Len(rooms) \in Nat
      BY <1>2, <3>2
    <3>6. rooms' \in Seq(ChatSession)
      <4>1. rooms' \in [1..Len(rooms) -> ChatSession]
        BY <3>2, <3>4, <3>5
      <4> QED
        BY <3>5, <4>1, FunctionIsSequence
    <3>7. \A r \in DOMAIN rooms : /\ rooms'[r].of = rooms[r].of
                                 /\ rooms'[r].rated = rooms[r].rated
                                 /\ rooms'[r].count = IF r = turn.room
                                                      THEN turn.seen + 1 ELSE rooms[r].count
      BY <3>1, <3>2, <3>3 DEF ChatSession
    <3> QED
      BY <2>1, <3>5, <3>6, <3>7
  <2>2. CASE ~counts
    BY <1>2, <2>2
  <2> QED
    BY <2>1, <2>2
<1>6. \A r : /\ Cardinality(Exchanges(r)) \in Nat /\ Cardinality(Exchanges(r)') \in Nat
             /\ Cardinality(Exchanges(r)) <= Cardinality(Exchanges(r)')
             /\ r = turn.room /\ counts =>
                    Cardinality(Exchanges(r)') = Cardinality(Exchanges(r)) + 1
  <2> TAKE r
  <2>1. IsFiniteSet(Exchanges(r)) /\ Cardinality(Exchanges(r)) \in Nat
    BY <1>2, ExchangesFinite
  <2>2. n + 1 \notin Exchanges(r)
    BY <1>2 DEF Exchanges
  <2>3. CASE r = turn.room /\ counts
    <3>1. Exchanges(r)' = Exchanges(r) \cup {n + 1}
      BY <1>2, <1>3, <2>3 DEF Exchanges
    <3>2. Cardinality(Exchanges(r)') = Cardinality(Exchanges(r)) + 1
      BY <2>1, <2>2, <3>1, FS_AddElement
    <3> QED
      BY <2>1, <3>2
  <2>4. CASE ~(r = turn.room /\ counts)
    <3>1. Exchanges(r)' = Exchanges(r)
      BY <1>2, <1>3, <2>4 DEF Exchanges
    <3> QED
      BY <2>1, <2>4, <3>1
  <2> QED
    BY <2>3, <2>4
<1>7. /\ turns'[h] = AtDesk
      /\ \A g \in Handlers : g # h => turns'[g] = turns[g]
      /\ turns' = [g \in Handlers |-> turns'[g]]
  BY DEF TurnInv, Over
<1>8. ASSUME NEW g \in Handlers, g # h
      PROVE  TurnOwned(turns[g])'
  <2> SUFFICES ASSUME turns'[g].room # 0
               PROVE  /\ turns'[g].room \in DOMAIN rooms'
                      /\ rooms'[turns'[g].room].of = turns'[g].by
                      /\ turns'[g].seen <= Cardinality(Exchanges(turns[g].room)')
    BY DEF TurnOwned
  <2>1. turns'[g] = turns[g] /\ TurnOwned(turns[g]) /\ turns[g].seen \in Nat
    BY <1>7, <1>8 DEF TurnInv, TurnSound, TurnTyped
  <2>2. /\ turns[g].room \in DOMAIN rooms /\ rooms[turns[g].room].of = turns[g].by
        /\ turns[g].seen <= Cardinality(Exchanges(turns[g].room))
    BY <2>1 DEF TurnOwned
  <2>3. ASSUME NEW q, q = turns[g].room
        PROVE  turns[g].seen <= Cardinality(Exchanges(q)')
    <3>1. /\ turns[g].seen <= Cardinality(Exchanges(q)) /\ Cardinality(Exchanges(q)) \in Nat
          /\ Cardinality(Exchanges(q)') \in Nat
          /\ Cardinality(Exchanges(q)) <= Cardinality(Exchanges(q)')
      BY <1>6, <2>2, <2>3
    <3> QED
      BY <2>1, <3>1
  <2> QED
    BY <1>5, <2>1, <2>2, <2>3 DEF Exchanges
<1>9. \A g \in Handlers : TurnSound(g)'
  <2> SUFFICES ASSUME NEW g \in Handlers PROVE TurnSound(g)'
    OBVIOUS
  <2>1. CASE g = h
    <3>1. TurnOwned(AtDesk)'
      BY DeskColumns DEF TurnOwned
    <3> QED
      BY <1>7, <2>1, <3>1, DeskSound DEF TurnSound
  <2>2. CASE g # h
    BY <1>7, <1>8, <2>2 DEF TurnSound, TurnInv
  <2> QED
    BY <2>1, <2>2
<1>10. \A i \in DOMAIN recorded' : RecordSound(i)'
  <2> SUFFICES ASSUME NEW i \in 1..(n + 1) PROVE RecordSound(i)'
    BY <1>3
  <2>1. CASE i = n + 1
    <3>1. recorded'[i].events > 0 \/ recorded'[i].counted => turn.room # 0
      BY <1>3, <2>1
    <3>2. recorded'[i].events > 0 => recorded'[i].events = recorded'[i].ran
      BY <1>3, <2>1
    <3> QED
      BY <1>1, <1>3, <1>5, <2>1, <3>1, <3>2 DEF RecordSound, TurnOwned
  <2>2. CASE i # n + 1
    <3>1. i \in 1..n
      BY <1>2, <2>2
    <3>2. RecordSound(i) /\ recorded'[i] = recorded[i]
      BY <1>2, <1>3, <3>1 DEF TurnInv
    <3> QED
      BY <1>5, <3>2 DEF RecordSound
  <2> QED
    BY <2>1, <2>2
<1>11. \A r \in DOMAIN rooms' : RoomSound(r)'
  <2> SUFFICES ASSUME NEW r \in DOMAIN rooms PROVE RoomSound(r)'
    BY <1>5
  <2>1. RoomSound(r) /\ rooms[r].count \in Nat
    <3>1. rooms[r] \in ChatSession
      BY <1>2
    <3> QED
      BY <3>1 DEF TurnInv, ChatSession
  <2>2. rooms'[r].count <= Cardinality(Exchanges(r)')
    <3>1. CASE counts /\ r = turn.room
      <4>1. turn.seen <= Cardinality(Exchanges(r))
        BY <1>1, <3>1 DEF TurnOwned
      <4>2. rooms'[r].count = turn.seen + 1
        BY <1>5, <3>1
      <4>3. Cardinality(Exchanges(r)') = Cardinality(Exchanges(r)) + 1
            /\ Cardinality(Exchanges(r)) \in Nat
        BY <1>6, <3>1
      <4> QED
        BY <1>4, <4>1, <4>2, <4>3
    <3>2. CASE ~(counts /\ r = turn.room)
      BY <1>5, <1>6, <2>1, <3>2 DEF RoomSound
    <3> QED
      BY <3>1, <3>2
  <2> QED
    BY <1>5, <2>1, <2>2 DEF RoomSound
<1> QED
  BY <1>3, <1>5, <1>7, <1>9, <1>10, <1>11 DEF TurnInv

LEMMA EndKeeps ==
  ASSUME TurnInv, NEW h \in Handlers, EndTurn(h)
  PROVE  TurnInv'
<1> DEFINE turn == turns[h]
           kept == ~turn.spoiled /\ (turn.pc = "ending" \/ turn.streams)
           how == IF turn.pc = "ending" THEN "ended" ELSE "failed"
<1>1. kept \in BOOLEAN /\ how \in {"ended", "failed", "left"}
  OBVIOUS
<1>2. Over(h, how, kept) /\ turn.pc # "idle"
  BY DEF EndTurn
<1>3. kept /\ Counts(turn) <=> kept /\ turn.room # 0 /\ how = "ended"
  BY DEF Counts
<1>4. rooms' = IF kept /\ turn.room # 0 /\ how = "ended"
               THEN [rooms EXCEPT ![turn.room].count = turn.seen + 1] ELSE rooms
  BY <1>3 DEF EndTurn
<1> HIDE DEF kept, how
<1> QED
  BY <1>1, <1>2, <1>4, OverKeeps

LEMMA LeaveKeeps ==
  ASSUME TurnInv, NEW h \in Handlers, Leave(h)
  PROVE  TurnInv'
<1>1. PICK kept \in BOOLEAN : Over(h, "left", kept)
  BY DEF Leave
<1>2. turns[h].pc # "idle" /\ rooms' = rooms
  BY DEF Leave
<1>3. rooms' = IF kept /\ turns[h].room # 0 /\ "left" = "ended"
               THEN [rooms EXCEPT ![turns[h].room].count = turns[h].seen + 1] ELSE rooms
  BY <1>2
<1> QED
  BY <1>1, <1>2, <1>3, OverKeeps

\* The chat sessions themselves: they never change hands, and their counts stay.
LEMMA RoomsKeep ==
  ASSUME TurnInv, UNCHANGED <<turns, recorded>>, rooms' \in Seq(ChatSession),
         DOMAIN rooms \subseteq DOMAIN rooms',
         \A r \in DOMAIN rooms : rooms'[r].of = rooms[r].of,
         \A r \in DOMAIN rooms' : RoomSound(r)'
  PROVE  TurnInv'
<1>1. \A r : Exchanges(r)' = Exchanges(r)
  BY DEF Exchanges
<1>2. \A h \in Handlers : TurnOwned(turns[h])'
  BY <1>1 DEF TurnInv, TurnSound, TurnOwned
<1>3. \A h \in Handlers : TurnSound(h)'
  BY <1>2 DEF TurnInv, TurnSound
<1>4. \A i \in DOMAIN recorded : RecordSound(i)'
  BY DEF TurnInv, RecordSound
<1> QED
  BY <1>3, <1>4 DEF TurnInv

LEMMA StartKeeps ==
  ASSUME TurnInv, NEW u \in Users, StartSession(u)
  PROVE  TurnInv'
<1> DEFINE room == [of |-> u, ended |-> FALSE, count |-> 0, rated |-> {}]
<1>1. rooms' = Append(rooms, room) /\ UNCHANGED <<turns, recorded>> /\ rooms \in Seq(ChatSession)
  BY DEF StartSession, TurnInv
<1>2. room \in ChatSession /\ room.rated = {} /\ room.count = 0
  BY DEF ChatSession
<1> HIDE DEF room
<1>3. /\ rooms' \in Seq(ChatSession) /\ DOMAIN rooms \subseteq DOMAIN rooms'
      /\ \A r \in DOMAIN rooms : rooms'[r] = rooms[r]
      /\ \A r \in DOMAIN rooms' : r \in DOMAIN rooms \/ rooms'[r] = room
  BY <1>1, <1>2
<1>4. \A r : Exchanges(r)' = Exchanges(r) /\ Cardinality(Exchanges(r)) \in Nat
  BY <1>1, ExchangesFinite DEF Exchanges, TurnInv
<1>5. \A r \in DOMAIN rooms' : RoomSound(r)'
  <2> SUFFICES ASSUME NEW r \in DOMAIN rooms' PROVE RoomSound(r)'
    OBVIOUS
  <2>1. CASE r \in DOMAIN rooms
    BY <1>3, <1>4, <2>1 DEF TurnInv, RoomSound
  <2>2. CASE rooms'[r] = room
    BY <1>2, <1>4, <2>2 DEF RoomSound
  <2> QED
    BY <1>3, <2>1, <2>2
<1> QED
  BY <1>1, <1>3, <1>5, RoomsKeep

LEMMA EditKeeps ==
  ASSUME TurnInv, NEW u \in Users, NEW r \in DOMAIN rooms, EndSession(u, r) \/ Feedback(u, r)
  PROVE  TurnInv'
<1>1. UNCHANGED <<turns, recorded>> /\ rooms \in Seq(ChatSession)
  BY DEF EndSession, Feedback, TurnInv
<1>2. rooms[r].of = u
  BY <1>1 DEF EndSession, Feedback, OwnedRoom
<1>3. /\ DOMAIN rooms' = DOMAIN rooms
      /\ rooms' = [q \in DOMAIN rooms |-> rooms'[q]]
      /\ \A q \in DOMAIN rooms : rooms[q] \in ChatSession
  BY <1>1 DEF EndSession, Feedback
<1>4. \A q \in DOMAIN rooms : /\ rooms'[q] \in ChatSession
                             /\ rooms'[q].of = rooms[q].of /\ rooms'[q].count = rooms[q].count
                             /\ rooms'[q].rated \subseteq rooms[q].rated \cup {rooms[q].of}
  <2>1. CASE EndSession(u, r)
    BY <1>3, <2>1 DEF EndSession, ChatSession
  <2>2. CASE Feedback(u, r)
    BY <1>2, <1>3, <2>2 DEF Feedback, ChatSession
  <2> QED
    BY <2>1, <2>2
<1>5. rooms' \in Seq(ChatSession)
  <2>1. DOMAIN rooms = 1..Len(rooms) /\ Len(rooms) \in Nat
    BY <1>1
  <2> QED
    BY <1>3, <1>4, <2>1
<1>6. \A q : Exchanges(q)' = Exchanges(q)
  BY <1>1 DEF Exchanges
<1>7. \A q \in DOMAIN rooms' : RoomSound(q)'
  BY <1>3, <1>4, <1>6 DEF TurnInv, RoomSound
<1> QED
  BY <1>1, <1>3, <1>4, <1>5, <1>7, RoomsKeep

LEMMA TurnInductive == TurnInv /\ [TurnNext]_turnVars => TurnInv'
<1> SUFFICES ASSUME TurnInv, [TurnNext]_turnVars PROVE TurnInv'
  OBVIOUS
<1>1. CASE \E h \in Handlers : TurnStep(h)
  <2>1. PICK h \in Handlers : TurnStep(h)
    BY <1>1
  <2> QED
    BY <2>1, AskKeeps, GatherKeeps, AnswerKeeps, ToolKeeps, TurnCloseKeeps, FailureKeeps, EndKeeps,
       LeaveKeeps DEF TurnStep
<1>2. CASE \E u \in Users : \/ StartSession(u)
                            \/ \E r \in DOMAIN rooms : EndSession(u, r) \/ Feedback(u, r)
  BY <1>2, StartKeeps, EditKeeps
<1>3. CASE UNCHANGED turnVars
  <2>1. UNCHANGED <<rooms, turns, recorded>>
    BY <1>3 DEF turnVars
  <2>2. \A r : Exchanges(r)' = Exchanges(r)
    BY <2>1 DEF Exchanges
  <2>3. \A r \in DOMAIN rooms' : RoomSound(r)'
    BY <2>1, <2>2 DEF TurnInv, RoomSound
  <2> QED
    BY <2>1, <2>3, RoomsKeep DEF TurnInv
<1> QED
  BY <1>1, <1>2, <1>3 DEF TurnNext

\* Whatever a stream can have said ends where the turn does, and nowhere before.
LEMMA SaidIsWhole ==
  ASSUME NEW turn, turn.draft \in Nat, SaidSoFar(turn)
  PROVE  LET ends == {i \in DOMAIN turn.sent : turn.sent[i] \in Terminal} IN
         /\ ends = IF turn.pc \in {"ending", "failed"} THEN {Len(turn.sent)} ELSE {}
         /\ "done" \in Range(turn.sent) =>
                /\ turn.sent[1] = "text"
                /\ (turn.draft # 0) <=> "draft" \in Range(turn.sent)
<1> DEFINE sent == turn.sent
           one == <<"text">>
           two == Append(one, "draft")
           E == {"text", "draft", "done", "error"}
<1>1. "text" \in E /\ "draft" \in E /\ "done" \in E /\ "error" \in E
  OBVIOUS
<1>2. << >> \in Seq(E) /\ Len(<< >>) = 0 /\ DOMAIN << >> = {}
  BY NoElement
<1> HIDE DEF E
<1>3. one \in Seq(E) /\ Len(one) = 1 /\ one[1] = "text" /\ DOMAIN one = 1..1
  BY <1>1, OneElement
<1> HIDE DEF one
<1>4. /\ two \in Seq(E) /\ Len(two) = 2 /\ two[1] = "text" /\ two[2] = "draft"
      /\ DOMAIN two = 1..2
  <2>1. /\ two \in Seq(E) /\ Len(two) = Len(one) + 1 /\ DOMAIN two = 1..(Len(one) + 1)
        /\ two[Len(one) + 1] = "draft" /\ \A i \in 1..Len(one) : two[i] = one[i]
    <3>1. one \in Seq(E) /\ "draft" \in E /\ two = Append(one, "draft")
      BY <1>1, <1>3
    <3> HIDE DEF two
    <3> QED
      BY <3>1, OneMoreIs
  <2> HIDE DEF two
  <2> QED
    BY <1>3, <2>1
<1> HIDE DEF two
<1>5. CASE turn.pc \in {"gathering", "asking", "calling", "closing"}
  <2>1. DOMAIN sent \subseteq {1} /\ \A i \in DOMAIN sent : sent[i] = "text"
    BY <1>2, <1>3, <1>5 DEF SaidSoFar, one
  <2> QED
    BY <1>5, <2>1 DEF Terminal, Range
<1>6. CASE turn.pc = "ending"
  <2>1. CASE turn.draft # 0
    <3>1. /\ DOMAIN sent = 1..3 /\ Len(sent) = 3 /\ sent[1] = "text" /\ sent[2] = "draft"
          /\ sent[3] = "done"
      <4>1. sent = Append(two, "done")
        BY <1>6, <2>1 DEF SaidSoFar, two, one
      <4> QED
        <5>1. /\ Len(sent) = Len(two) + 1 /\ DOMAIN sent = 1..(Len(two) + 1)
              /\ sent[Len(two) + 1] = "done" /\ \A i \in 1..Len(two) : sent[i] = two[i]
          BY <1>1, <1>4, <4>1, OneMoreIs
        <5> QED
          BY <1>4, <5>1
    <3> QED
      BY <1>6, <2>1, <3>1 DEF Terminal, Range
  <2>2. CASE turn.draft = 0
    <3>1. DOMAIN sent = 1..2 /\ Len(sent) = 2 /\ sent[1] = "text" /\ sent[2] = "done"
      <4>1. sent = Append(one, "done")
        BY <1>6, <2>2 DEF SaidSoFar, one
      <4> QED
        <5>1. /\ Len(sent) = Len(one) + 1 /\ DOMAIN sent = 1..(Len(one) + 1)
              /\ sent[Len(one) + 1] = "done" /\ \A i \in 1..Len(one) : sent[i] = one[i]
          BY <1>1, <1>3, <4>1, OneMoreIs
        <5> QED
          BY <1>3, <5>1
    <3> QED
      BY <1>6, <2>2, <3>1 DEF Terminal, Range
  <2> QED
    BY <2>1, <2>2
<1>7. CASE turn.pc = "failed"
  <2>1. \/ DOMAIN sent = 1..1 /\ Len(sent) = 1 /\ sent[1] = "error"
        \/ DOMAIN sent = 1..2 /\ Len(sent) = 2 /\ sent[1] = "text" /\ sent[2] = "error"
    <3>1. PICK before : /\ before = << >> \/ before = one
                        /\ sent = Append(before, "error")
      BY <1>7 DEF SaidSoFar, one
    <3>2. /\ before \in Seq(E)
          /\ \/ Len(before) = 0
             \/ Len(before) = 1 /\ before[1] = "text"
      BY <1>2, <1>3, <3>1
    <3>3. /\ Len(sent) = Len(before) + 1 /\ DOMAIN sent = 1..(Len(before) + 1)
          /\ sent[Len(before) + 1] = "error" /\ \A i \in 1..Len(before) : sent[i] = before[i]
      BY <1>1, <3>1, <3>2, OneMoreIs
    <3> QED
      BY <3>2, <3>3
  <2>2. /\ DOMAIN sent = 1..Len(sent) /\ Len(sent) \in DOMAIN sent
        /\ \A i \in DOMAIN sent : sent[i] # "done" /\ (sent[i] = "error" <=> i = Len(sent))
    <3> HIDE DEF sent
    <3>1. CASE Len(sent) = 1
      BY <2>1, <3>1
    <3>2. CASE Len(sent) = 2
      BY <2>1, <3>2
    <3> QED
      BY <2>1, <3>1, <3>2
  <2>3. {i \in DOMAIN sent : sent[i] \in Terminal} = {Len(sent)}
    BY <2>2 DEF Terminal
  <2>4. "done" \notin Range(sent)
    BY <2>2 DEF Range
  <2> QED
    BY <1>7, <2>3, <2>4
<1> QED
  BY <1>5, <1>6, <1>7 DEF SaidSoFar

LEMMA TurnsMean == TurnInv => TurnsAreWhole
<1> SUFFICES ASSUME TurnInv PROVE TurnsAreWhole
  OBVIOUS
<1>1. StreamsEnd
  BY SaidIsWhole DEF StreamsEnd, TurnInv, TurnSound, TurnTyped
<1>2. ASSUME NEW i \in DOMAIN recorded
      PROVE  /\ recorded[i].events > 0 =>
                    /\ recorded[i].events = recorded[i].ran
                    /\ rooms[recorded[i].room].of = recorded[i].by
             /\ recorded[i].counted => rooms[recorded[i].room].of = recorded[i].by
  BY <1>2 DEF TurnInv, RecordSound
<1>3. TelemetryIsOwned
  BY <1>2 DEF TelemetryIsOwned, TurnInv, RoomSound, Exchanges
<1> QED
  BY <1>1, <1>3 DEF TurnsAreWhole

\* A stream that nobody left ends once and tells of the draft that is kept; a turn is
\* recorded whole, in a chat session of its own user, whatever the model, the tools,
\* the database and the client do (streaming_loop.py, session_access.py).
THEOREM TurnsStayWhole == TurnSpec => []TurnsAreWhole
<1>1. TurnSpec => []TurnInv
  BY TurnStarts, TurnInductive, PTL DEF TurnSpec
<1> QED
  BY <1>1, TurnsMean, PTL

-------------------------------------------------------------------------------
(* The panel that shows them *)

\* The question asked last: only its stream can be connected, and only its text can
\* stand in the bubble.
LastAsked(q) == stream[q] # "none" /\ \A p \in Questions : p > q => stream[p] = "none"

\* An answer that has been taken from the bubble: its stream is over.
Given(b) == \E q \in Questions : b = {q} /\ stream[q] = "closed" /\ q \notin panel.bubble

GivenAt(i) == Given(transcript[i].of) /\ transcript[i].of \notin panel.posts

AnswerInv ==
    /\ DOMAIN panel = {"mounted", "ready", "loading", "finalized", "renewing", "failed", "chat",
                       "bubble", "posts"}
    /\ panel.bubble \subseteq Questions
    /\ stream \in [Questions -> {"none", "asked", "open", "drafted", "closed"}]
    /\ transcript \in Seq([role : {"user", "assistant", "note"}, of : SUBSET Questions])
    /\ \A p, q \in Questions : p < q /\ stream[q] # "none" => stream[p] # "none"
    /\ \A q \in Questions : Connected(q) \/ q \in panel.bubble => LastAsked(q)
    /\ \A b \in panel.posts : Given(b)
    /\ \A i \in Answers : GivenAt(i)
    /\ \A i, j \in Answers : transcript[i].of = transcript[j].of => i = j

\* A stream goes on or is closed; none begins.
StreamsGoOn ==
    /\ stream' \in [Questions -> {"none", "asked", "open", "drafted", "closed"}]
    /\ \A q \in Questions : \/ stream'[q] = stream[q]
                            \/ Connected(q) /\ (stream'[q] = "closed" \/ Connected(q)')

\* No answer is added to the conversation.
NothingAnswered ==
    \/ transcript' = transcript
    \/ transcript' = << >>
    \/ \E role \in {"user", "note"}, q \in Questions : transcript' = Message(role, {q})

LEMMA PanelStarts == PanelInit => AnswerInv
BY DEF PanelInit, AnswerInv, Answers, Connected, Responding

LEMMA StreamsStay ==
  ASSUME AnswerInv, StreamsGoOn
  PROVE  /\ \A p, q \in Questions : p < q /\ stream'[q] # "none" => stream'[p] # "none"
         /\ \A q \in Questions : LastAsked(q) => LastAsked(q)'
         /\ \A q \in Questions : Connected(q)' => LastAsked(q)'
         /\ \A q \in Questions : stream[q] = "closed" => stream'[q] = "closed"
<1>1. \A q \in Questions : /\ stream'[q] = "none" <=> stream[q] = "none"
                           /\ Connected(q)' => Connected(q)
                           /\ stream[q] = "closed" => stream'[q] = "closed"
  BY DEF StreamsGoOn, Connected, Responding
<1>2. \A q \in Questions : LastAsked(q) => LastAsked(q)'
  BY <1>1 DEF LastAsked
<1> QED
  BY <1>1, <1>2 DEF AnswerInv

\* What the conversation holds after a message has been added.
LEMMA MessageAdds ==
  ASSUME AnswerInv, NEW role \in {"user", "assistant", "note"}, NEW b \in SUBSET Questions,
         transcript' = Message(role, b)
  PROVE  /\ transcript' \in Seq([role : {"user", "assistant", "note"}, of : SUBSET Questions])
         /\ \A i \in Answers' : \/ i \in Answers /\ transcript'[i] = transcript[i]
                                \/ /\ i = Len(transcript) + 1 /\ transcript'[i].of = b
                                   /\ role = "assistant"
         /\ Len(transcript) + 1 \notin Answers
<1> DEFINE Line == [role : {"user", "assistant", "note"}, of : SUBSET Questions]
           line == [role |-> role, of |-> b]
<1>1. line \in Line /\ line.role = role /\ line.of = b /\ transcript \in Seq(Line)
  BY DEF AnswerInv
<1>2. transcript' = Append(transcript, line)
  BY DEF Message
<1> HIDE DEF Line, line
<1>3. /\ transcript' \in Seq(Line) /\ DOMAIN transcript' = 1..(Len(transcript) + 1)
      /\ transcript'[Len(transcript) + 1] = line
      /\ \A i \in 1..Len(transcript) : transcript'[i] = transcript[i]
      /\ DOMAIN transcript = 1..Len(transcript) /\ Len(transcript) \in Nat
  BY <1>1, <1>2
<1>4. \A i \in Answers' : \/ i \in Answers /\ transcript'[i] = transcript[i]
                          \/ i = Len(transcript) + 1 /\ transcript'[i] = line
  BY <1>3 DEF Answers
<1>5. \A i \in Answers' : transcript'[i] = line => role = "assistant"
  BY <1>1 DEF Answers
<1> QED
  BY <1>1, <1>3, <1>4, <1>5 DEF Answers, Line

\* A step that answers nothing: the streams go on, the bubble at most empties.
LEMMA NothingGiven ==
  ASSUME AnswerInv, StreamsGoOn, NothingAnswered, DOMAIN panel' = DOMAIN panel,
         panel'.bubble \subseteq panel.bubble, panel'.posts = panel.posts
  PROVE  AnswerInv'
<1>1. \A b : Given(b) => Given(b)'
  BY StreamsStay DEF Given
<1>2. /\ transcript' \in Seq([role : {"user", "assistant", "note"}, of : SUBSET Questions])
      /\ \A i \in Answers' : i \in Answers /\ transcript'[i] = transcript[i]
  <2>1. CASE transcript' = transcript
    BY <2>1 DEF AnswerInv, Answers
  <2>3. CASE transcript' = << >>
    <3>1. << >> \in Seq([role : {"user", "assistant", "note"}, of : SUBSET Questions])
          /\ DOMAIN << >> = {}
      OBVIOUS
    <3> QED
      BY <2>3, <3>1 DEF Answers
  <2>2. CASE \E role \in {"user", "note"}, q \in Questions : transcript' = Message(role, {q})
    <3>1. PICK role \in {"user", "note"}, q \in Questions : transcript' = Message(role, {q})
      BY <2>2
    <3>2. role \in {"user", "assistant", "note"} /\ role # "assistant" /\ {q} \in SUBSET Questions
      OBVIOUS
    <3> QED
      BY <3>1, <3>2, MessageAdds
  <2> QED
    BY <2>1, <2>2, <2>3 DEF NothingAnswered
<1>3. \A q \in Questions : Connected(q)' \/ q \in panel'.bubble => LastAsked(q)'
  BY StreamsStay DEF AnswerInv
<1>4. \A b \in panel'.posts : Given(b)'
  BY <1>1 DEF AnswerInv
<1>5. \A i \in Answers' : GivenAt(i)'
  <2> SUFFICES ASSUME NEW i \in Answers' PROVE GivenAt(i)'
    OBVIOUS
  <2>1. i \in Answers /\ transcript'[i] = transcript[i]
    BY <1>2
  <2> QED
    BY <2>1, StreamsStay DEF AnswerInv, GivenAt, Given
<1>6. \A i, j \in Answers' : transcript'[i].of = transcript'[j].of => i = j
  BY <1>2 DEF AnswerInv
<1> QED
  BY <1>2, <1>3, <1>4, <1>5, <1>6, StreamsStay DEF AnswerInv, StreamsGoOn

LEMMA AbortCloses ==
  ASSUME AnswerInv, Abort
  PROVE  StreamsGoOn /\ \A q \in Questions : ~Connected(q)'
BY DEF AnswerInv, Abort, StreamsGoOn, Connected, Responding

\* One stream that goes on or is closed.
LEMMA OneStream ==
  ASSUME AnswerInv, NEW q \in Questions, Connected(q), NEW to \in {"open", "drafted", "closed"},
         stream' = [stream EXCEPT ![q] = to]
  PROVE  StreamsGoOn
BY DEF AnswerInv, StreamsGoOn, Connected, Responding

LEMMA SendKeeps == ASSUME AnswerInv, NEW q \in Questions, Send(q) PROVE AnswerInv'
<1>1. /\ DOMAIN panel' = DOMAIN panel /\ panel'.bubble = {} /\ panel'.posts = panel.posts
      /\ transcript' = Message("user", {q})
  BY DEF Send, Fresh, AnswerInv
<1>2. /\ stream' \in [Questions -> {"none", "asked", "open", "drafted", "closed"}]
      /\ stream'[q] = "asked" /\ stream[q] = "none"
      /\ \A p \in Questions : p # q => /\ stream'[p] = "none" <=> stream[p] = "none"
                                       /\ stream[p] = "closed" => stream'[p] = "closed"
                                       /\ ~Connected(p)'
      /\ \A p \in Questions : p < q => stream[p] # "none"
  BY DEF AnswerInv, Send, AbortAndAsk, Connected, Responding
<1>3. \A p \in Questions : p > q => stream[p] = "none"
  BY <1>2 DEF AnswerInv
<1>4. LastAsked(q)'
  BY <1>2, <1>3 DEF LastAsked
<1>5. \A p, r \in Questions : p < r /\ stream'[r] # "none" => stream'[p] # "none"
  BY <1>2, <1>3 DEF AnswerInv
<1>6. \A p \in Questions : stream[p] = "closed" => stream'[p] = "closed"
  BY <1>2
<1>7. \A b : Given(b) => Given(b)'
  BY <1>1, <1>6 DEF Given
<1>8. /\ transcript' \in Seq([role : {"user", "assistant", "note"}, of : SUBSET Questions])
      /\ \A i \in Answers' : i \in Answers /\ transcript'[i] = transcript[i]
  <2>1. "user" \in {"user", "assistant", "note"} /\ {q} \in SUBSET Questions
    OBVIOUS
  <2> QED
    BY <1>1, <2>1, MessageAdds
<1>9. \A i \in Answers' : GivenAt(i)'
  <2> SUFFICES ASSUME NEW i \in Answers' PROVE GivenAt(i)'
    OBVIOUS
  <2>1. i \in Answers /\ transcript'[i] = transcript[i]
    BY <1>8
  <2> QED
    BY <1>1, <1>6, <2>1 DEF AnswerInv, GivenAt, Given
<1>10. \A b \in panel'.posts : Given(b)'
  BY <1>1, <1>7 DEF AnswerInv
<1>11. \A i, j \in Answers' : transcript'[i].of = transcript'[j].of => i = j
  BY <1>8 DEF AnswerInv
<1>12. \A p \in Questions : Connected(p)' \/ p \in panel'.bubble => LastAsked(p)'
  BY <1>1, <1>2, <1>4
<1> QED
  BY <1>1, <1>2, <1>5, <1>8, <1>9, <1>10, <1>11, <1>12 DEF AnswerInv

\* What stands in the bubble is the text of one question, and new.
LEMMA BubbleIsOne ==
  ASSUME AnswerInv, panel.bubble # {}
  PROVE  \E q \in Questions : /\ panel.bubble = {q} /\ LastAsked(q)
                              /\ \A b \in panel.posts : b # {q}
                              /\ \A i \in Answers : transcript[i].of # {q}
<1>1. PICK q \in panel.bubble : q \in Questions /\ LastAsked(q)
  BY DEF AnswerInv
<1>2. ASSUME NEW p \in panel.bubble PROVE p = q
  <2>1. p \in Questions /\ LastAsked(p) /\ p \in Int /\ q \in Int
    BY <1>1, <1>2 DEF AnswerInv, Questions
  <2> QED
    BY <1>1, <2>1 DEF LastAsked
<1>3. \A b : Given(b) => b # {q}
  BY <1>1 DEF Given
<1>4. \A i \in Answers : transcript[i].of # {q}
  BY <1>3 DEF AnswerInv, GivenAt
<1>5. \A b \in panel.posts : b # {q}
  BY <1>3 DEF AnswerInv
<1>6. panel.bubble = {q}
  BY <1>1, <1>2
<1> QED
  BY <1>1, <1>4, <1>5, <1>6

\* An answer joins the conversation.
LEMMA AnswerAdded ==
  ASSUME AnswerInv, StreamsGoOn, DOMAIN panel' = DOMAIN panel,
         panel'.bubble \subseteq panel.bubble, panel'.posts \subseteq panel.posts,
         NEW b \in SUBSET Questions, transcript' = Message("assistant", b), Given(b)',
         b \notin panel'.posts, \A i \in Answers : transcript[i].of # b
  PROVE  AnswerInv'
<1>1. \A c : Given(c) => Given(c)'
  BY StreamsStay DEF Given
<1>2. /\ transcript' \in Seq([role : {"user", "assistant", "note"}, of : SUBSET Questions])
      /\ \A i \in Answers' : \/ i \in Answers /\ transcript'[i] = transcript[i]
                             \/ i = Len(transcript) + 1 /\ transcript'[i].of = b
  BY MessageAdds
<1>3. \A q \in Questions : Connected(q)' \/ q \in panel'.bubble => LastAsked(q)'
  BY StreamsStay DEF AnswerInv
<1>4. \A c \in panel'.posts : Given(c)'
  BY <1>1 DEF AnswerInv
<1>5. \A i \in Answers' : GivenAt(i)'
  <2> SUFFICES ASSUME NEW i \in Answers' PROVE GivenAt(i)'
    OBVIOUS
  <2>1. CASE i \in Answers /\ transcript'[i] = transcript[i]
    BY <2>1, StreamsStay DEF AnswerInv, GivenAt, Given
  <2>2. CASE transcript'[i].of = b
    BY <2>2 DEF GivenAt, Given
  <2> QED
    BY <1>2, <2>1, <2>2
<1>6. \A i, j \in Answers' : transcript'[i].of = transcript'[j].of => i = j
  BY <1>2 DEF AnswerInv
<1> QED
  BY <1>2, <1>3, <1>4, <1>5, <1>6, StreamsStay DEF AnswerInv, StreamsGoOn

LEMMA StopKeeps == ASSUME AnswerInv, Stop PROVE AnswerInv'
<1>1. /\ DOMAIN panel' = DOMAIN panel /\ panel'.bubble = {} /\ panel'.posts = panel.posts
      /\ Abort
  BY DEF Stop, AnswerInv
<1>2. StreamsGoOn /\ \A q \in Questions : ~Connected(q)'
  BY <1>1, AbortCloses
<1>3. CASE panel.bubble = {}
  <2>1. transcript' = transcript
    BY <1>3 DEF Stop
  <2> QED
    BY <1>1, <1>2, <1>3, <2>1, NothingGiven DEF NothingAnswered
<1>4. CASE panel.bubble # {}
  <2>1. PICK q \in Questions : /\ panel.bubble = {q} /\ LastAsked(q)
                               /\ \A b \in panel.posts : b # {q}
                               /\ \A i \in Answers : transcript[i].of # {q}
    BY <1>4, BubbleIsOne
  <2>2. stream'[q] = "closed"
    BY <1>1, <2>1 DEF AnswerInv, Abort, LastAsked, Connected, Responding
  <2>3. transcript' = Message("assistant", {q})
    BY <1>4, <2>1 DEF Stop
  <2>4. Given({q})' /\ {q} \notin panel'.posts
    BY <1>1, <2>1, <2>2 DEF Given
  <2> QED
    BY <1>1, <1>2, <2>1, <2>3, <2>4, AnswerAdded
<1> QED
  BY <1>3, <1>4

LEMMA ReadTextKeeps == ASSUME AnswerInv, NEW q \in Questions, ReadText(q) PROVE AnswerInv'
<1>1. /\ DOMAIN panel' = DOMAIN panel /\ panel'.bubble = panel.bubble \cup {q}
      /\ panel'.posts = panel.posts /\ UNCHANGED <<transcript, stream>> /\ stream[q] # "closed"
      /\ Connected(q)
  BY DEF ReadText, AnswerInv, Connected, Responding
<1>2. /\ \A p \in Questions : (Connected(p)' <=> Connected(p)) /\ (LastAsked(p)' <=> LastAsked(p))
      /\ Answers' = Answers
  BY <1>1 DEF Connected, Responding, LastAsked, Answers
<1>3. \A b : Given(b) => Given(b)'
  BY <1>1 DEF Given
<1>4. \A i \in Answers' : GivenAt(i)'
  BY <1>1, <1>2 DEF AnswerInv, GivenAt, Given
<1>5. \A b \in panel'.posts : Given(b)'
  BY <1>1, <1>3 DEF AnswerInv
<1>6. \A p \in Questions : Connected(p)' \/ p \in panel'.bubble => LastAsked(p)'
  BY <1>1, <1>2 DEF AnswerInv
<1> QED
  BY <1>1, <1>2, <1>4, <1>5, <1>6 DEF AnswerInv

LEMMA ReadDoneKeeps == ASSUME AnswerInv, NEW q \in Questions, ReadDone(q) PROVE AnswerInv'
<1>1. stream' = [stream EXCEPT ![q] = "closed"] /\ transcript' = transcript /\ Connected(q)
  BY DEF ReadDone, Connected
<1>2. StreamsGoOn
  BY <1>1, OneStream
<1>3. CASE panel.finalized \/ panel.bubble = {}
  <2>1. CASE panel.finalized
    <3>1. panel' = panel
      BY <2>1 DEF ReadDone
    <3> QED
      BY <1>1, <1>2, <3>1, NothingGiven DEF NothingAnswered
  <2>2. CASE ~panel.finalized /\ panel.bubble = {}
    <3>1. DOMAIN panel' = DOMAIN panel /\ panel'.bubble = {} /\ panel'.posts = panel.posts
      BY <2>2 DEF ReadDone, AnswerInv
    <3> QED
      BY <1>1, <1>2, <3>1, NothingGiven DEF NothingAnswered
  <2> QED
    BY <1>3, <2>1, <2>2
<1>4. CASE ~panel.finalized /\ panel.bubble # {}
  <2>1. PICK p \in Questions : /\ panel.bubble = {p} /\ LastAsked(p)
                               /\ \A b \in panel.posts : b # {p}
                               /\ \A i \in Answers : transcript[i].of # {p}
    BY <1>4, BubbleIsOne
  <2>2. p = q
    <3>1. LastAsked(q) /\ p \in Int /\ q \in Int
      BY <1>1 DEF AnswerInv, Questions
    <3> QED
      BY <2>1, <3>1 DEF LastAsked
  <2>3. /\ DOMAIN panel' = DOMAIN panel /\ panel'.bubble = {}
        /\ panel'.posts = panel.posts \cup {{q}}
    BY <1>4, <2>1, <2>2 DEF ReadDone, AnswerInv
  <2>4. stream'[q] = "closed"
    BY <1>1 DEF AnswerInv
  <2>5. Given({q})' /\ \A b : Given(b) => Given(b)'
    BY <1>2, <2>3, <2>4, StreamsStay DEF Given
  <2>6. Answers' = Answers
    BY <1>1 DEF Answers
  <2>7. \A i \in Answers' : GivenAt(i)'
    <3> SUFFICES ASSUME NEW i \in Answers PROVE GivenAt(i)'
      BY <2>6
    <3>1. transcript'[i].of \notin panel'.posts
      BY <1>1, <2>1, <2>2, <2>3 DEF AnswerInv, GivenAt
    <3>2. Given(transcript[i].of)
      BY DEF AnswerInv, GivenAt
    <3> QED
      BY <1>1, <1>2, <2>3, <3>1, <3>2, StreamsStay DEF GivenAt, Given
  <2>8. \A b \in panel'.posts : Given(b)'
    BY <2>3, <2>5 DEF AnswerInv
  <2>9. \A r \in Questions : Connected(r)' \/ r \in panel'.bubble => LastAsked(r)'
    BY <1>2, <2>3, StreamsStay
  <2> QED
    BY <1>1, <1>2, <2>3, <2>6, <2>7, <2>8, <2>9, StreamsStay DEF AnswerInv, StreamsGoOn
<1> QED
  BY <1>3, <1>4

LEMMA PostKeeps == ASSUME AnswerInv, NEW b \in panel.posts, Post(b) PROVE AnswerInv'
<1>1. /\ DOMAIN panel' = DOMAIN panel /\ panel'.bubble = panel.bubble
      /\ panel'.posts = panel.posts \ {b} /\ stream' = stream
  BY DEF Post, AnswerInv
<1>2. StreamsGoOn
  BY <1>1 DEF StreamsGoOn, AnswerInv
<1>3. /\ b \in SUBSET Questions /\ Given(b) /\ Given(b)'
      /\ \A i \in Answers : transcript[i].of # b
  BY <1>1 DEF AnswerInv, GivenAt, Given
<1>4. transcript' = Message("assistant", b)
  <2> SUFFICES ASSUME transcript # << >>, Last(transcript) = [role |-> "assistant", of |-> b]
               PROVE  FALSE
    BY DEF Post
  <2>1. Len(transcript) \in DOMAIN transcript
    BY DEF AnswerInv
  <2>2. Len(transcript) \in Answers /\ transcript[Len(transcript)].of = b
    BY <2>1 DEF Last, Answers
  <2> QED
    BY <1>3, <2>2
<1> QED
  BY <1>1, <1>2, <1>3, <1>4, AnswerAdded

\* The steps that concern the session, the connection or the draft.
LEMMA OthersKeep ==
  ASSUME AnswerInv, \A c \in Clicks : call[c].at # "none" => call[c].of \in Questions,
         \/ \E s \in Chats : StartChat(s) \/ NoChat(s)
         \/ Unmount \/ NewChat \/ \E i \in DOMAIN panel.renewing : Renew(i)
         \/ \E q \in Questions : \/ Respond(q) \/ ReadDraft(q) \/ Fail(q) \/ EndUnread(q)
                                 \/ TimeOut(q)
         \/ CardLeaves \/ Reopen
         \/ \E c \in Clicks : \/ \E op \in {"confirm", "reject"} : Decide(c, op)
                              \/ Record(c) \/ Write(c) \/ CallFails(c)
         \/ UNCHANGED panelVars
  PROVE  AnswerInv'
<1>1. ASSUME stream' = stream PROVE StreamsGoOn
  BY <1>1 DEF StreamsGoOn, AnswerInv
<1>2. CASE \E s \in Chats : StartChat(s) \/ NoChat(s)
  <2>1. /\ DOMAIN panel' = DOMAIN panel /\ panel'.bubble \subseteq panel.bubble
        /\ panel'.posts = panel.posts
    BY <1>2 DEF StartChat, NoChat, AnswerInv
  <2>2. NothingAnswered /\ stream' = stream
    BY <1>2 DEF StartChat, NoChat, NothingAnswered
  <2> QED
    BY <1>1, <2>1, <2>2, NothingGiven
<1>3. CASE Unmount \/ NewChat \/ \E i \in DOMAIN panel.renewing : Renew(i)
  <2>1. ASSUME NEW s, NEW chats, NEW p, Restart(s, chats, p), DOMAIN p = DOMAIN panel,
               p.posts = panel.posts
        PROVE  /\ DOMAIN panel' = DOMAIN panel /\ panel'.bubble = {}
               /\ panel'.posts = panel.posts /\ transcript' = << >>
    BY <2>1 DEF Restart, Fresh, AnswerInv
  <2>2. /\ DOMAIN panel' = DOMAIN panel /\ panel'.bubble \subseteq panel.bubble
        /\ panel'.posts = panel.posts /\ NothingAnswered
    <3>1. CASE Unmount
      BY <3>1 DEF Unmount, NothingAnswered, AnswerInv
    <3>2. CASE NewChat
      <4>1. CASE panel.chat # 0
        BY <3>2, <4>1 DEF NewChat, NothingAnswered, AnswerInv
      <4>2. CASE panel.chat = 0
        <5>1. PICK s \in Chats : Restart(s, chat, panel)
          BY <3>2, <4>2 DEF NewChat
        <5> QED
          BY <2>1, <5>1 DEF NothingAnswered
      <4> QED
        BY <4>1, <4>2
    <3>3. CASE \E i \in DOMAIN panel.renewing : Renew(i)
      <4>1. PICK i, s, chats : Restart(s, chats, [panel EXCEPT !.renewing = RemoveAt(@, i)])
        BY <3>3 DEF Renew
      <4> DEFINE p == [panel EXCEPT !.renewing = RemoveAt(@, i)]
      <4>2. DOMAIN p = DOMAIN panel /\ p.posts = panel.posts
        BY DEF AnswerInv
      <4>3. Restart(s, chats, p)
        BY <4>1
      <4> HIDE DEF p
      <4> QED
        BY <2>1, <4>2, <4>3 DEF NothingAnswered
    <3> QED
      BY <1>3, <3>1, <3>2, <3>3
  <2>3. stream' = stream \/ Abort
    BY <1>3 DEF Unmount, NewChat, Renew
  <2> QED
    BY <1>1, <2>2, <2>3, AbortCloses, NothingGiven
<1>4. CASE \E q \in Questions : Respond(q) \/ ReadDraft(q) \/ TimeOut(q)
  <2>1. PICK q \in Questions : Respond(q) \/ ReadDraft(q) \/ TimeOut(q)
    BY <1>4
  <2>2. panel' = panel /\ NothingAnswered
    BY <2>1 DEF Respond, ReadDraft, TimeOut, NothingAnswered
  <2>3. StreamsGoOn
    BY <2>1, OneStream DEF Respond, ReadDraft, TimeOut, Connected, Responding
  <2> QED
    BY <2>2, <2>3, NothingGiven
<1>5. CASE \E q \in Questions : Fail(q) \/ EndUnread(q)
  <2>1. PICK q \in Questions : Fail(q) \/ EndUnread(q)
    BY <1>5
  <2>2. /\ DOMAIN panel' = DOMAIN panel /\ panel'.bubble \subseteq panel.bubble
        /\ panel'.posts = panel.posts /\ NothingAnswered
    BY <2>1 DEF Fail, EndUnread, NothingAnswered, AnswerInv
  <2>3. StreamsGoOn
    BY <2>1, OneStream DEF Fail, EndUnread, Connected
  <2> QED
    BY <2>2, <2>3, NothingGiven
<1>6. CASE \/ CardLeaves \/ Reopen
           \/ \E c \in Clicks : \/ \E op \in {"confirm", "reject"} : Decide(c, op)
                                \/ Record(c) \/ Write(c) \/ CallFails(c)
           \/ UNCHANGED panelVars
  <2>1. panel' = panel /\ stream' = stream
    BY <1>6 DEF CardLeaves, Reopen, Decide, Record, Write, CallFails, panelVars
  <2>2. NothingAnswered
    <3>1. CASE \E c \in Clicks : Write(c)
      <4>1. PICK c \in Clicks : call[c].at = "writing" /\ transcript' = Message("note", {call[c].of})
        BY <3>1 DEF Write
      <4> QED
        BY <4>1 DEF NothingAnswered
    <3>2. CASE ~\E c \in Clicks : Write(c)
      BY <1>6, <3>2 DEF CardLeaves, Reopen, Decide, Record, CallFails, panelVars,
         NothingAnswered
    <3> QED
      BY <3>1, <3>2
  <2> QED
    BY <1>1, <2>1, <2>2, NothingGiven
<1> QED
  BY <1>2, <1>3, <1>4, <1>5, <1>6

LEMMA AnswersInductive ==
  ASSUME AnswerInv, [PanelNext]_panelVars,
         \A c \in Clicks : call[c].at # "none" => call[c].of \in Questions
  PROVE  AnswerInv'
BY SendKeeps, StopKeeps, ReadTextKeeps, ReadDoneKeeps, PostKeeps, OthersKeep DEF PanelNext

LEMMA AnswersMean == AnswerInv => AnswersWhole
<1> SUFFICES ASSUME AnswerInv PROVE AnswersWhole
  OBVIOUS
<1>1. \A i \in Answers : Cardinality(transcript[i].of) = 1
  <2> TAKE i \in Answers
  <2>1. PICK q \in Questions : transcript[i].of = {q}
    BY DEF AnswerInv, GivenAt, Given
  <2>2. Cardinality({q}) = 1
    BY FS_Singleton
  <2> QED
    BY <2>1, <2>2
<1> QED
  BY <1>1 DEF AnswersWhole, AnswerInv

\* A draft can have come with the stream of its question only.
Brought(q) == stream[q] \in {"drafted", "closed"}

\* A call that is under way disables the card it was made on, as long as that card is in
\* the page; and what was decided on a card that stayed is not on offer again.
ClickSound(c) ==
    call[c].at # "none" =>
        /\ call[c].of \in Questions
        /\ Brought(call[c].of)
        /\ call[c].at = "writing" => c \in decisions
        /\ Underway(c) /\ ~call[c].left => shown.by = c
        /\ call[c].at \in {"done", "rejected"} /\ ~call[c].left => card # call[c].of
        /\ call[c].at = "done" /\ ~call[c].left => shown.by = c \/ shown.of # call[c].of

CardSound ==
    /\ card \in Questions \cup {0}
    /\ card # 0 => Brought(card)
    /\ DOMAIN shown = {"of", "by"}
    /\ shown = [of |-> shown.of, by |-> shown.by]
    /\ shown.of \in Questions \cup {0}
    /\ shown.of # 0 => Brought(shown.of)

WriteInv ==
    /\ CardSound
    /\ call \in [Clicks -> Calls]
    /\ \A a, b \in Clicks : a < b /\ call[b].at # "none" => call[a].at # "none"
    /\ \A c \in Clicks : ClickSound(c)
    /\ WritesConfirmed

LEMMA DraftsStart == PanelInit => WriteInv
<1> SUFFICES ASSUME PanelInit PROVE WriteInv
  OBVIOUS
<1> DEFINE none == [of |-> 0, left |-> FALSE, late |-> FALSE, at |-> "none"]
<1>1. none \in Calls /\ none.at = "none"
  BY PanelBounds DEF Calls
<1> HIDE DEF none
<1>2. call = [c \in Clicks |-> none]
  BY DEF PanelInit, none
<1>3. CardSound
  BY DEF PanelInit, CardSound
<1> QED
  BY <1>1, <1>2, <1>3 DEF PanelInit, WriteInv, ClickSound, WritesConfirmed

LEMMA ClickIsThere == \A c \in Clicks : c # 0 /\ c \in Int
BY DEF Clicks

\* Streams, at least those that have brought their draft, only close.
LEMMA BroughtStays ==
  ASSUME AnswerInv, [PanelNext]_panelVars, NEW q \in Questions, Brought(q)
  PROVE  Brought(q)'
<1>1. CASE NewChat \/ Stop \/ \E p \in Questions : Send(p)
  BY <1>1 DEF AnswerInv, Brought, NewChat, Stop, Send, AbortAndAsk, Abort, Connected, Responding
<1>2. CASE \E p \in Questions : \/ Respond(p) \/ ReadDraft(p) \/ ReadDone(p) \/ Fail(p)
                                \/ EndUnread(p) \/ TimeOut(p)
  <2>1. PICK p \in Questions : \/ Respond(p) \/ ReadDraft(p) \/ ReadDone(p) \/ Fail(p)
                               \/ EndUnread(p) \/ TimeOut(p)
    BY <1>2
  <2>2. PICK to \in {"open", "drafted", "closed"} :
           /\ stream' = [stream EXCEPT ![p] = to]
           /\ to = "open" => stream[p] = "asked"
    BY <2>1 DEF Respond, ReadDraft, ReadDone, Fail, EndUnread, TimeOut
  <2> QED
    BY <2>2 DEF AnswerInv, Brought
<1>3. CASE \/ \E s \in Chats : StartChat(s) \/ NoChat(s)
           \/ Unmount \/ \E i \in DOMAIN panel.renewing : Renew(i)
           \/ \E p \in Questions : ReadText(p)
           \/ \E b \in panel.posts : Post(b)
           \/ CardLeaves \/ Reopen
           \/ \E c \in Clicks : \/ \E op \in {"confirm", "reject"} : Decide(c, op)
                                \/ Record(c) \/ Write(c) \/ CallFails(c)
           \/ UNCHANGED panelVars
  <2>1. stream' = stream
    BY <1>3 DEF StartChat, NoChat, Renew, Unmount, ReadText, Record, Write, CallFails, Post,
       CardLeaves, Reopen, Decide, panelVars
  <2> QED
    BY <2>1 DEF Brought
<1> QED
  BY <1>1, <1>2, <1>3 DEF PanelNext

\* A step that leaves the calls and the card in the page alone, or clears the draft.
LEMMA DraftsStay ==
  ASSUME WriteInv, \A q \in Questions : Brought(q) => Brought(q)',
         UNCHANGED <<shown, call, decisions, performed>>, card' \in {card, 0}
  PROVE  WriteInv'
<1>1. CardSound'
  BY DEF WriteInv, CardSound
<1>2. ASSUME NEW c \in Clicks PROVE ClickSound(c)'
  <2>1. 0 \notin Questions
    BY DEF Questions
  <2> QED
    BY <2>1 DEF WriteInv, ClickSound, Underway
<1> QED
  BY <1>1, <1>2 DEF WriteInv, WritesConfirmed

LEMMA DraftComes ==
  ASSUME AnswerInv, WriteInv, NEW q \in Questions, ReadDraft(q),
         \A p \in Questions : Brought(p) => Brought(p)'
  PROVE  WriteInv'
<1>1. /\ UNCHANGED <<call, decisions, performed>> /\ ~Brought(q) /\ Brought(q)'
      /\ \/ UNCHANGED <<card, shown>>
         \/ card' = q /\ shown' = [shown EXCEPT !.of = q]
  BY DEF ReadDraft, AnswerInv, Brought
<1>2. CASE UNCHANGED <<card, shown>>
  BY <1>1, <1>2, DraftsStay
<1>3. CASE card' = q /\ shown' = [shown EXCEPT !.of = q]
  <2>1. /\ DOMAIN shown' = {"of", "by"} /\ shown'.of = q /\ shown'.by = shown.by
        /\ shown' = [of |-> shown'.of, by |-> shown'.by]
    BY <1>3 DEF WriteInv, CardSound
  <2>2. CardSound'
    BY <1>1, <1>3, <2>1 DEF CardSound
  <2>3. ASSUME NEW c \in Clicks PROVE ClickSound(c)'
    BY <1>1, <1>3, <2>1 DEF WriteInv, ClickSound, Underway
  <2> QED
    BY <1>1, <2>2, <2>3 DEF WriteInv, WritesConfirmed
<1> QED
  BY <1>1, <1>2, <1>3

\* The card in the page goes away, or makes room for another one.
LEMMA CardsKeep ==
  ASSUME WriteInv, CardLeaves \/ Reopen
  PROVE  WriteInv'
<1>1. /\ UNCHANGED <<card, stream, decisions, performed>> /\ CardGoes
      /\ shown' = [of |-> card, by |-> 0]
  BY DEF CardLeaves, Reopen
<1>2. CardSound'
  BY <1>1 DEF WriteInv, CardSound, Brought
<1>3. ASSUME NEW c \in Clicks
      PROVE  /\ call'[c] \in Calls /\ call'[c].of = call[c].of /\ call'[c].at = call[c].at
             /\ call'[c].late = call[c].late
             /\ call'[c].left = (call[c].left \/ (Underway(c) /\ c = shown.by))
  <2>1. call[c] \in Calls /\ Underway(c) \in BOOLEAN
    BY DEF WriteInv, Underway
  <2>2. call'[c] = [call[c] EXCEPT !.left = @ \/ (Underway(c) /\ c = shown.by)]
    BY <1>1 DEF CardGoes
  <2> QED
    BY <2>1, <2>2 DEF Calls
<1>4. call' \in [Clicks -> Calls]
  BY <1>1, <1>3 DEF CardGoes
<1>5. ASSUME NEW c \in Clicks PROVE ClickSound(c)'
  <2>1. ClickSound(c) /\ (Underway(c)' <=> Underway(c))
    BY <1>3 DEF WriteInv, Underway
  <2>2. shown'.of = card
    BY <1>1
  <2> QED
    BY <1>1, <1>3, <2>1, <2>2 DEF ClickSound, Brought
<1>6. WritesConfirmed'
  BY <1>1, <1>3 DEF WriteInv, WritesConfirmed
<1>7. \A a, b \in Clicks : a < b /\ call'[b].at # "none" => call'[a].at # "none"
  BY <1>3 DEF WriteInv
<1> QED
  BY <1>2, <1>4, <1>5, <1>6, <1>7 DEF WriteInv

\* A card whose buttons can be used is of no draft whose decision stands.
LEMMA DecideKeeps ==
  ASSUME WriteInv, NEW c \in Clicks, NEW op \in {"confirm", "reject"}, Decide(c, op)
  PROVE  WriteInv'
<1> DEFINE new == [of |-> shown.of, left |-> FALSE, late |-> card # shown.of, at |-> FirstCall(op)]
<1>1. /\ shown.of \in Questions /\ shown.by = 0 /\ call[c].at = "none" /\ Brought(shown.of)
      /\ UNCHANGED <<card, stream, decisions, performed>>
      /\ call' = [call EXCEPT ![c] = new] /\ shown' = [shown EXCEPT !.by = c]
      /\ \A b \in Clicks : b < c => call[b].at # "none"
  BY DEF Decide, WriteInv, CardSound
<1>2. /\ new \in Calls /\ new.of = shown.of /\ ~new.left /\ new.late = (card # shown.of)
      /\ new.at \in {"recording", "rejecting"}
  BY <1>1 DEF Calls, Questions, FirstCall
<1> HIDE DEF new
<1>3. /\ call' \in [Clicks -> Calls] /\ call'[c] = new
      /\ \A d \in Clicks : d # c => call'[d] = call[d]
  BY <1>1, <1>2 DEF WriteInv
<1>4. /\ DOMAIN shown' = {"of", "by"} /\ shown'.of = shown.of /\ shown'.by = c
      /\ shown' = [of |-> shown'.of, by |-> shown'.by]
  BY <1>1 DEF WriteInv, CardSound
<1>5. CardSound'
  BY <1>1, <1>4 DEF WriteInv, CardSound, Brought
<1>6. ASSUME NEW d \in Clicks, d # c, call[d].at # "none"
      PROVE  \/ call[d].at = "failed" \/ call[d].left
             \/ call[d].at = "rejected" /\ card # call[d].of
             \/ call[d].at = "done" /\ card # call[d].of /\ shown.of # call[d].of
  <2>1. ClickSound(d) /\ d # 0 /\ call[d] \in Calls
    BY ClickIsThere DEF WriteInv
  <2>2. call[d].at \in {"recording", "writing", "rejecting", "done", "rejected", "failed"}
    BY <1>6, <2>1 DEF Calls
  <2> QED
    BY <1>1, <1>6, <2>1, <2>2 DEF ClickSound, Underway
<1>7. ASSUME NEW d \in Clicks PROVE ClickSound(d)'
  <2>1. CASE d = c
    BY <1>1, <1>2, <1>3, <1>4, <2>1 DEF ClickSound, Brought, Underway
  <2>2. CASE d # c
    BY <1>1, <1>3, <1>4, <1>6, <2>2 DEF WriteInv, ClickSound, Brought, Underway
  <2> QED
    BY <2>1, <2>2
<1>8. \A b \in Clicks : c < b => call[b].at = "none"
  BY <1>1 DEF WriteInv
<1>9. WritesConfirmed'
  <2> SUFFICES ASSUME NEW a \in Clicks, NEW b \in Clicks, a < b, call'[b].at # "none",
                      call'[a].of = call'[b].of
               PROVE  \/ call'[a].at = "failed" \/ call'[a].left
                      \/ call'[a].at = "rejected" /\ call'[b].late
    BY <1>1 DEF WriteInv, WritesConfirmed
  <2>1. a # c /\ a # b /\ call'[a] = call[a]
    BY <1>3, <1>8, ClickIsThere
  <2>2. CASE b = c
    BY <1>1, <1>2, <1>3, <1>6, <2>1, <2>2
  <2>3. CASE b # c
    BY <1>3, <2>1, <2>3 DEF WriteInv, WritesConfirmed
  <2> QED
    BY <2>2, <2>3
<1>10. \A a, b \in Clicks : a < b /\ call'[b].at # "none" => call'[a].at # "none"
  BY <1>1, <1>2, <1>3, <1>8, ClickIsThere DEF WriteInv
<1> QED
  BY <1>3, <1>5, <1>7, <1>9, <1>10 DEF WriteInv

\* A call that was under way goes on, or ends.
LEMMA CallGoesOn ==
  ASSUME WriteInv, NEW c \in Clicks, Underway(c), stream' = stream,
         NEW at \in {"writing", "done", "rejected", "failed"}, CallAt(c, at),
         decisions \subseteq decisions', performed' \subseteq decisions',
         at = "writing" => c \in decisions',
         card' \in {card, 0}, at \in {"done", "rejected"} => card' = 0,
         IF at \in {"writing", "done"} THEN shown' = shown ELSE Enable(c)
  PROVE  WriteInv'
<1>1. /\ call' \in [Clicks -> Calls] /\ call'[c].at = at
      /\ \A d \in Clicks : /\ call'[d].of = call[d].of /\ call'[d].left = call[d].left
                           /\ call'[d].late = call[d].late
                           /\ d # c => call'[d].at = call[d].at
  BY DEF WriteInv, CallAt, Calls
<1>2. /\ DOMAIN shown' = {"of", "by"} /\ shown' = [of |-> shown'.of, by |-> shown'.by]
      /\ shown'.of = shown.of /\ shown'.by \in {shown.by, 0}
      /\ shown'.by # shown.by => shown.by = c /\ at \in {"rejected", "failed"}
  BY DEF WriteInv, CardSound, Enable
<1>3. CardSound'
  BY <1>2 DEF WriteInv, CardSound, Brought
<1>4. 0 \notin Questions
  BY DEF Questions
<1>5. ASSUME NEW d \in Clicks PROVE ClickSound(d)'
  <2>1. CASE d = c
    BY <1>1, <1>2, <1>4, <2>1 DEF WriteInv, ClickSound, Underway, Brought
  <2>2. CASE d # c
    BY <1>1, <1>2, <1>4, <2>2 DEF WriteInv, ClickSound, Underway, Brought
  <2> QED
    BY <2>1, <2>2
<1>6. WritesConfirmed'
  <2> SUFFICES ASSUME NEW a \in Clicks, NEW b \in Clicks, a < b, call'[b].at # "none",
                      call'[a].of = call'[b].of
               PROVE  \/ call'[a].at = "failed" \/ call'[a].left
                      \/ call'[a].at = "rejected" /\ call'[b].late
    BY DEF WritesConfirmed
  <2>1. call[b].at # "none"
    BY <1>1 DEF Underway
  <2>2. \/ call[a].at = "failed" \/ call[a].left
        \/ call[a].at = "rejected" /\ call[b].late
    BY <1>1, <2>1 DEF WriteInv, WritesConfirmed
  <2> QED
    BY <1>1, <2>2 DEF Underway
<1>7. \A a, b \in Clicks : a < b /\ call'[b].at # "none" => call'[a].at # "none"
  BY <1>1 DEF WriteInv, Underway
<1> QED
  BY <1>1, <1>3, <1>5, <1>6, <1>7 DEF WriteInv

LEMMA CallsKeep ==
  ASSUME WriteInv, NEW c \in Clicks, Record(c) \/ Write(c) \/ CallFails(c)
  PROVE  WriteInv'
<1>1. performed \subseteq decisions /\ ClickSound(c)
  BY DEF WriteInv, WritesConfirmed
<1>2. CASE Record(c)
  BY <1>1, <1>2, CallGoesOn DEF Record, Underway
<1>3. CASE Write(c)
  BY <1>1, <1>3, CallGoesOn DEF Write, Underway, ClickSound
<1>4. CASE CallFails(c)
  <2> DEFINE at == IF call[c].at = "rejecting" THEN "rejected" ELSE "failed"
  <2>1. /\ Underway(c) /\ stream' = stream /\ CallAt(c, at) /\ Enable(c)
        /\ card' = IF call[c].at = "rejecting" THEN 0 ELSE card
    BY <1>4 DEF CallFails
  <2>2. decisions \subseteq decisions' /\ performed' \subseteq decisions'
    BY <1>1, <1>4 DEF CallFails, ClickSound
  <2>3. /\ at \in {"writing", "done", "rejected", "failed"} /\ at \notin {"writing", "done"}
        /\ at = "rejected" <=> call[c].at = "rejecting"
    OBVIOUS
  <2> HIDE DEF at
  <2> QED
    BY <2>1, <2>2, <2>3, CallGoesOn
<1> QED
  BY <1>2, <1>3, <1>4

LEMMA DraftsInductive ==
  ASSUME AnswerInv, WriteInv, [PanelNext]_panelVars
  PROVE  WriteInv'
<1>1. \A q \in Questions : Brought(q) => Brought(q)'
  BY BroughtStays
<1>2. CASE \/ \E s \in Chats : StartChat(s) \/ NoChat(s)
           \/ Unmount \/ NewChat \/ Stop \/ \E i \in DOMAIN panel.renewing : Renew(i)
           \/ \E q \in Questions : \/ Send(q) \/ Respond(q) \/ ReadText(q) \/ ReadDone(q)
                                   \/ Fail(q) \/ EndUnread(q) \/ TimeOut(q)
           \/ \E b \in panel.posts : Post(b)
           \/ UNCHANGED panelVars
  <2>1. UNCHANGED <<shown, call, decisions, performed>> /\ card' \in {card, 0}
    BY <1>2 DEF StartChat, NoChat, Renew, Restart, Unmount, NewChat, Stop, Send, Respond,
       ReadText, ReadDone, Fail, EndUnread, TimeOut, Post, panelVars
  <2> QED
    BY <1>1, <2>1, DraftsStay
<1> QED
  BY <1>1, <1>2, DraftComes, CardsKeep, DecideKeeps, CallsKeep DEF PanelNext

\* No answer is shown twice or mixed with another; a write follows the entry of its own
\* confirmation, and a draft whose card stayed in the page while it was decided on is
\* decided on once, up to failed calls, however questions, stops, new conversations and
\* clicks follow each other (AiChat.tsx).
THEOREM PanelStaysTrue == PanelSpec => []PanelIsTrue
<1>1. AnswerInv /\ WriteInv /\ [PanelNext]_panelVars => AnswerInv' /\ WriteInv'
  <2> SUFFICES ASSUME AnswerInv, WriteInv, [PanelNext]_panelVars
               PROVE  AnswerInv' /\ WriteInv'
    OBVIOUS
  <2>1. \A c \in Clicks : call[c].at # "none" => call[c].of \in Questions
    BY DEF WriteInv, ClickSound
  <2> QED
    BY <2>1, AnswersInductive, DraftsInductive
<1>2. PanelSpec => [](AnswerInv /\ WriteInv)
  BY <1>1, PanelStarts, DraftsStart, PTL DEF PanelSpec
<1>3. AnswerInv /\ WriteInv => PanelIsTrue
  BY AnswersMean DEF PanelIsTrue, WriteInv
<1> QED
  BY <1>2, <1>3, PTL

-------------------------------------------------------------------------------
(* The evaluation of the classifier *)

\* A correction that HR opted in has been redacted, and one to be committed was.
EditorSound(h) ==
    /\ editors[h].pc = "correct" => editors[h].status \in InboxStatus
    /\ editors[h].pc \in {"select", "commit"} => editors[h].at \in DOMAIN corrections
    /\ editors[h].pc = "commit" => corrections[editors[h].at].redacted

SamplesInv ==
    /\ item.status \in InboxStatus
    /\ corrections \in Seq(CorrectionRecord)
    /\ editors = [h \in Handlers |-> editors[h]]
    /\ \A h \in Handlers : EditorSound(h)
    /\ \A c \in DOMAIN corrections : corrections[c].status # "none" => corrections[c].redacted
    /\ samples \in Seq([of : Nat, text : {TRUE}, sender : {"as received"}])

LEMMA NoEditorColumns ==
  /\ DOMAIN NoEditor = {"pc", "at", "status", "seen"} /\ NoEditor.pc = "idle"
BY DEF NoEditor

LEMMA FeedbackStarts == FeedbackInit => SamplesInv
BY NoEditorColumns DEF FeedbackInit, SamplesInv, EditorSound, InboxStatus

\* An editor reads: the tables stay.
LEMMA EditsKeep ==
  ASSUME SamplesInv, NEW h \in Handlers, NEW editor, Edits(h, editor),
         editor.pc = "correct" => editor.status \in InboxStatus,
         editor.pc \in {"select", "commit"} => editor.at \in DOMAIN corrections,
         editor.pc = "commit" => corrections[editor.at].redacted
  PROVE  SamplesInv'
<1>1. /\ editors' = [g \in Handlers |-> editors'[g]] /\ editors'[h] = editor
      /\ \A g \in Handlers : g # h => editors'[g] = editors[g]
      /\ UNCHANGED <<item, corrections, samples>>
  BY DEF Edits, SamplesInv
<1>2. \A g \in Handlers : EditorSound(g)'
  BY <1>1 DEF SamplesInv, EditorSound
<1> QED
  BY <1>1, <1>2 DEF SamplesInv

\* An editor writes: what was redacted stays so, and no correction is lost.
LEMMA EditedKeeps ==
  ASSUME SamplesInv, NEW h \in Handlers, Edited(h), item'.status \in InboxStatus,
         corrections' \in Seq(CorrectionRecord),
         DOMAIN corrections \subseteq DOMAIN corrections',
         \A c \in DOMAIN corrections : corrections[c].redacted => corrections'[c].redacted,
         \A c \in DOMAIN corrections' : corrections'[c].status # "none" => corrections'[c].redacted,
         samples' \in Seq([of : Nat, text : {TRUE}, sender : {"as received"}])
  PROVE  SamplesInv'
<1>1. /\ editors' = [g \in Handlers |-> editors'[g]] /\ editors'[h] = NoEditor
      /\ \A g \in Handlers : g # h => editors'[g] = editors[g]
  BY DEF Edited, SamplesInv
<1>2. ASSUME NEW g \in Handlers PROVE EditorSound(g)'
  <2>1. CASE g = h
    BY <1>1, <2>1, NoEditorColumns DEF EditorSound
  <2>2. CASE g # h
    BY <1>1, <2>2 DEF SamplesInv, EditorSound
  <2> QED
    BY <2>1, <2>2
<1> QED
  BY <1>1, <1>2 DEF SamplesInv

LEMMA ReadItemKeeps ==
  ASSUME SamplesInv, NEW h \in Handlers, ReadItem(h) PROVE SamplesInv'
<1> DEFINE editor == [NoEditor EXCEPT !.pc = "correct", !.status = item.status,
                                      !.seen = item.history]
<1>1. Edits(h, editor)
  BY DEF ReadItem
<1>2. editor.pc = "correct" /\ editor.status = item.status
  BY NoEditorColumns
<1> HIDE DEF editor
<1> QED
  BY <1>1, <1>2, EditsKeep DEF SamplesInv

LEMMA ReadCorrectionKeeps ==
  ASSUME SamplesInv, NEW h \in Handlers, NEW c \in DOMAIN corrections,
         NEW pc \in {"select", "commit"}, ReadCorrection(h, c, pc)
  PROVE  SamplesInv'
<1> DEFINE editor == [NoEditor EXCEPT !.pc = pc, !.at = c, !.status = corrections[c].status]
<1>1. Edits(h, editor) /\ (pc = "commit" => OptedIn(c))
  BY DEF ReadCorrection
<1>2. editor.pc = pc /\ editor.at = c
  BY NoEditorColumns
<1> HIDE DEF editor
<1>3. pc = "commit" => corrections[c].redacted
  BY <1>1 DEF OptedIn, SamplesInv
<1> QED
  BY <1>1, <1>2, <1>3, EditsKeep

LEMMA CorrectItemKeeps ==
  ASSUME SamplesInv, NEW h \in Handlers, NEW status \in InboxStatus, CorrectItem(h, status)
  PROVE  SamplesInv'
<1> DEFINE row == [previous |-> status, was |-> editors[h].status, status |-> "none",
                   redacted |-> FALSE]
<1>1. /\ corrections' = Append(corrections, row) /\ Edited(h) /\ samples' = samples
      /\ item'.status \in InboxStatus /\ editors[h].status \in InboxStatus
  BY DEF CorrectItem, SamplesInv, EditorSound
<1>2. row \in CorrectionRecord /\ row.status = "none"
  BY <1>1 DEF CorrectionRecord
<1> HIDE DEF row
<1>3. corrections \in Seq(CorrectionRecord)
  BY DEF SamplesInv
<1>4. /\ corrections' \in Seq(CorrectionRecord)
      /\ DOMAIN corrections \subseteq DOMAIN corrections'
      /\ \A c \in DOMAIN corrections : corrections'[c] = corrections[c]
      /\ \A c \in DOMAIN corrections' : c \in DOMAIN corrections \/ corrections'[c] = row
  BY <1>1, <1>2, <1>3
<1>5. \A c \in DOMAIN corrections' : corrections'[c].status # "none" => corrections'[c].redacted
  BY <1>2, <1>4 DEF SamplesInv
<1> QED
  BY <1>1, <1>4, <1>5, EditedKeeps DEF SamplesInv

LEMMA SelectKeeps ==
  ASSUME SamplesInv, NEW h \in Handlers, SelectForEvaluation(h) PROVE SamplesInv'
<1> DEFINE c == editors[h].at
<1>1. /\ Edited(h) /\ UNCHANGED <<item, samples>> /\ c \in DOMAIN corrections
      /\ corrections \in Seq(CorrectionRecord)
  BY DEF SelectForEvaluation, SamplesInv, EditorSound
<1>2. PICK s : /\ s = corrections[c].status \/ s = "selected"
               /\ corrections' = [corrections EXCEPT ![c].status = s, ![c].redacted = TRUE]
  BY DEF SelectForEvaluation
<1>3. corrections[c] \in CorrectionRecord
  BY <1>1
<1>4. /\ DOMAIN corrections' = DOMAIN corrections
      /\ \A d \in DOMAIN corrections : d # c => corrections'[d] = corrections[d]
  BY <1>2
<1>5. corrections'[c] \in CorrectionRecord /\ corrections'[c].redacted = TRUE
  BY <1>1, <1>2, <1>3 DEF CorrectionRecord
<1>6. \A d \in DOMAIN corrections' : corrections'[d] \in CorrectionRecord
  BY <1>1, <1>4, <1>5
<1>7. corrections' \in Seq(CorrectionRecord)
  <2>1. DOMAIN corrections = 1..Len(corrections) /\ Len(corrections) \in Nat
    BY <1>1
  <2>2. corrections' \in [1..Len(corrections) -> CorrectionRecord]
    BY <1>2, <1>4, <1>6, <2>1
  <2> QED
    BY <2>1, <2>2, FunctionIsSequence
<1> QED
  BY <1>1, <1>4, <1>5, <1>7, EditedKeeps DEF SamplesInv

LEMMA CommitKeeps ==
  ASSUME SamplesInv, NEW h \in Handlers, CommitToEvaluationSet(h) PROVE SamplesInv'
<1> DEFINE c == editors[h].at
           Sample == [of : Nat, text : {TRUE}, sender : {"as received"}]
           sample == [of |-> c, text |-> corrections[c].redacted, sender |-> "as received"]
<1>1. /\ Edited(h) /\ item' = item /\ c \in DOMAIN corrections /\ corrections[c].redacted
      /\ corrections' = [corrections EXCEPT ![c].status = "committed"]
      /\ samples' = Append(samples, sample)
  BY DEF CommitToEvaluationSet, SamplesInv, EditorSound
<1> HIDE DEF sample, Sample
<1>0. c \in DOMAIN corrections /\ corrections \in Seq(CorrectionRecord)
  BY <1>1 DEF SamplesInv
<1>2. corrections[c] \in CorrectionRecord
  BY <1>0
<1>3. /\ DOMAIN corrections' = DOMAIN corrections
      /\ \A d \in DOMAIN corrections : d # c => corrections'[d] = corrections[d]
  BY <1>1
<1>4. corrections'[c] \in CorrectionRecord /\ corrections'[c].redacted = corrections[c].redacted
  BY <1>1, <1>2 DEF CorrectionRecord
<1>5. DOMAIN corrections = 1..Len(corrections) /\ Len(corrections) \in Nat
  BY <1>0
<1>6. corrections' \in Seq(CorrectionRecord)
  <2>1. \A d \in DOMAIN corrections' : corrections'[d] \in CorrectionRecord
    BY <1>3, <1>4, <1>0
  <2>2. corrections' \in [1..Len(corrections) -> CorrectionRecord]
    BY <1>1, <1>3, <1>5, <2>1
  <2> QED
    BY <1>5, <2>2, FunctionIsSequence
<1>7. samples' \in Seq(Sample)
  <2>1. corrections[c].redacted = TRUE
    BY <1>1, <1>2 DEF CorrectionRecord
  <2>2. c \in Nat
    BY <1>5, <1>0
  <2>3. sample \in Sample
    BY <2>1, <2>2 DEF Sample, sample
  <2>4. samples \in Seq(Sample)
    BY DEF SamplesInv, Sample
  <2> QED
    BY <1>1, <2>3, <2>4
<1>8. \A d \in DOMAIN corrections' : corrections'[d].status # "none" => corrections'[d].redacted
  BY <1>1, <1>3, <1>4 DEF SamplesInv
<1> QED
  BY <1>1, <1>3, <1>4, <1>6, <1>7, <1>8, EditedKeeps DEF SamplesInv, Sample

LEMMA FeedbackInductive == SamplesInv /\ [FeedbackNext]_feedbackVars => SamplesInv'
<1> SUFFICES ASSUME SamplesInv, [FeedbackNext]_feedbackVars PROVE SamplesInv'
  OBVIOUS
<1>1. ASSUME NEW h \in Handlers, Abandon(h) PROVE SamplesInv'
  BY <1>1, EditedKeeps DEF Abandon, SamplesInv
<1>2. CASE FeedbackNext
  BY <1>1, <1>2, ReadItemKeeps, CorrectItemKeeps, ReadCorrectionKeeps, SelectKeeps, CommitKeeps
     DEF FeedbackNext
<1>3. CASE UNCHANGED feedbackVars
  BY <1>3 DEF feedbackVars, SamplesInv, EditorSound
<1> QED
  BY <1>2, <1>3

-------------------------------------------------------------------------------
(* A run of the contract *)

Entry == [id : ItemIds \cup {NoId}, truth : Categories, cohort : BOOLEAN]
Prediction == [of : ItemIds \cup {NoId}, says : Categories, sure : BOOLEAN]

\* An accepted dataset has an id for each item; the k-th prediction is of the k-th.
ContractInv ==
    /\ DOMAIN evaluation = {"pc", "items", "frozen", "predictions"}
    /\ evaluation.items \in Seq(Entry)
    /\ evaluation.predictions \in Seq(Prediction)
    /\ evaluation.pc = "raw" => evaluation.predictions = << >>
    /\ \A j, k \in DOMAIN evaluation.items : evaluation.items[j].id = evaluation.items[k].id => j = k
    /\ Len(evaluation.predictions) <= Len(evaluation.items)
    /\ \A k \in DOMAIN evaluation.predictions :
           evaluation.predictions[k].of = evaluation.items[k].id
    /\ evaluation.pc = "report" => Len(evaluation.predictions) = Len(evaluation.items)

LEMMA ContractStarts ==
  ASSUME NEW e, e = NotLoaded \/ e = [NotLoaded EXCEPT !.pc = "failed"]
  PROVE  /\ DOMAIN e = {"pc", "items", "frozen", "predictions"} /\ e.pc # "report"
         /\ e.items = << >> /\ e.predictions = << >>
BY DEF NotLoaded

LEMMA EmptyContract ==
  ASSUME DOMAIN evaluation = {"pc", "items", "frozen", "predictions"}, evaluation.pc # "report",
         evaluation.items = << >>, evaluation.predictions = << >>
  PROVE  ContractInv
<1>1. << >> \in Seq(Entry) /\ << >> \in Seq(Prediction) /\ DOMAIN << >> = {} /\ Len(<< >>) = 0
  BY NoElement
<1> QED
  BY <1>1 DEF ContractInv

LEMMA LoadKeeps ==
  ASSUME ContractInv, NEW dataset \in Datasets, Load(dataset) PROVE ContractInv'
<1>1. /\ evaluation.pc = "raw" /\ Validated(dataset)
      /\ \A k \in DOMAIN dataset.items : dataset.items[k].id # NoId
      /\ DOMAIN evaluation' = {"pc", "items", "frozen", "predictions"}
      /\ evaluation'.pc = "predict" /\ evaluation'.items = dataset.items
      /\ evaluation'.predictions = evaluation.predictions
  BY DEF Load, ParsedItem, ContractInv
<1>2. dataset.items \in Seq(Entry)
  BY DatasetsAreRead DEF Entry
<1>3. \A j, k \in DOMAIN dataset.items : dataset.items[j].id = dataset.items[k].id => j = k
  BY <1>1 DEF Validated
<1>4. /\ << >> \in Seq(Prediction) /\ DOMAIN << >> = {} /\ Len(<< >>) = 0
      /\ Len(dataset.items) \in Nat
  BY <1>2, NoElement
<1>5. evaluation'.predictions = << >>
  BY <1>1 DEF ContractInv
<1> QED
  BY <1>1, <1>2, <1>3, <1>4, <1>5 DEF ContractInv

LEMMA PredictKeeps ==
  ASSUME ContractInv, NEW prediction \in Prediction, Predict(prediction) PROVE ContractInv'
<1> DEFINE n == Len(evaluation.predictions)
<1>1. /\ n < Len(evaluation.items) /\ prediction.of = evaluation.items[n + 1].id
      /\ DOMAIN evaluation' = {"pc", "items", "frozen", "predictions"}
      /\ evaluation'.pc = "predict" /\ evaluation'.items = evaluation.items
      /\ evaluation'.predictions = Append(evaluation.predictions, prediction)
  BY DEF Predict, ContractInv
<1>2. /\ evaluation.predictions \in Seq(Prediction) /\ n \in Nat
      /\ DOMAIN evaluation.predictions = 1..n /\ Len(evaluation.items) \in Nat
  BY DEF ContractInv
<1>3. /\ evaluation'.predictions \in Seq(Prediction)
      /\ Len(evaluation'.predictions) = n + 1 /\ DOMAIN evaluation'.predictions = 1..(n + 1)
      /\ evaluation'.predictions[n + 1] = prediction
      /\ \A k \in 1..n : evaluation'.predictions[k] = evaluation.predictions[k]
  BY <1>1, <1>2, OneMoreIs
<1>4. \A k \in DOMAIN evaluation'.predictions :
         evaluation'.predictions[k].of = evaluation'.items[k].id
  <2> SUFFICES ASSUME NEW k \in 1..(n + 1)
               PROVE  evaluation'.predictions[k].of = evaluation.items[k].id
    BY <1>1, <1>3
  <2>1. CASE k = n + 1
    BY <1>1, <1>3, <2>1
  <2>2. CASE k # n + 1
    <3>1. k \in 1..n
      BY <1>2, <2>2
    <3> QED
      BY <1>2, <1>3, <3>1 DEF ContractInv
  <2> QED
    BY <2>1, <2>2
<1> QED
  BY <1>1, <1>2, <1>3, <1>4 DEF ContractInv

LEMMA ContractInductive == ContractInv /\ [EvaluationNext]_evaluation => ContractInv'
<1> SUFFICES ASSUME ContractInv, [EvaluationNext]_evaluation PROVE ContractInv'
  OBVIOUS
<1>1. ASSUME NEW prediction \in [of : ItemIds \cup {NoId}, says : Categories, sure : BOOLEAN],
             Predict(prediction)
      PROVE  ContractInv'
  BY <1>1, PredictKeeps DEF Prediction
<1>2. CASE FailEvaluation
  <2>1. evaluation' = [NotLoaded EXCEPT !.pc = "failed"]
    BY <1>2 DEF FailEvaluation
  <2>2. /\ DOMAIN evaluation' = {"pc", "items", "frozen", "predictions"} /\ evaluation'.pc # "report"
        /\ evaluation'.items = << >> /\ evaluation'.predictions = << >>
    BY <2>1, ContractStarts
  <2>3. << >> \in Seq(Entry) /\ << >> \in Seq(Prediction) /\ DOMAIN << >> = {} /\ Len(<< >>) = 0
    BY NoElement
  <2> QED
    BY <2>2, <2>3 DEF ContractInv
<1>3. CASE ReportIt
  BY <1>3 DEF ReportIt, ContractInv
<1>4. CASE UNCHANGED evaluation
  BY <1>4 DEF ContractInv
<1> QED
  BY <1>1, <1>2, <1>3, <1>4, LoadKeeps DEF EvaluationNext

\* In a report the item of the k-th prediction is the k-th item.
LEMMA ItemsFound ==
  ASSUME ContractInv, NEW k \in DOMAIN evaluation.predictions
  PROVE  k \in DOMAIN evaluation.items /\ ItemOf(evaluation.predictions[k]) = evaluation.items[k]
<1>1. k \in DOMAIN evaluation.items /\ k \in Int
  BY DEF ContractInv
<1> DEFINE of == {j \in DOMAIN evaluation.items :
                    evaluation.items[j].id = evaluation.predictions[k].of}
<1>2. of = {k}
  BY <1>1 DEF ContractInv
<1>3. (CHOOSE i \in of : \A j \in of : j <= i) = k
  BY <1>1, <1>2
<1> QED
  BY <1>1, <1>3 DEF ItemOf

LEMMA Adds ==
  ASSUME NEW n \in Nat, NEW S, NEW T, S \cup T \subseteq 1..n, S \cap T = {}
  PROVE  Cardinality(S) + Cardinality(T) = Cardinality(S \cup T)
<1>1. IsFiniteSet(1..n)
  BY FS_Interval
<1>2. IsFiniteSet(S) /\ IsFiniteSet(T)
  BY <1>1, FS_Subset
<1>3. Cardinality(S \cup T) = Cardinality(S) + Cardinality(T) - Cardinality(S \cap T)
  BY <1>2, FS_Union
<1>4. Cardinality(S) \in Nat /\ Cardinality(T) \in Nat
  BY <1>2, FS_CardinalityType
<1>5. Cardinality(S \cap T) = 0
  BY FS_EmptySet
<1> QED
  BY <1>3, <1>4, <1>5

LEMMA ReportCounts == ASSUME ContractInv PROVE CountsEachItem
<1> SUFFICES ASSUME evaluation.pc = "report" PROVE CountsEachItem
  BY DEF CountsEachItem
<1> DEFINE n == Len(evaluation.predictions)
           P(k) == evaluation.predictions[k]
           I(k) == evaluation.items[k]
<1>1. /\ n \in Nat /\ DOMAIN evaluation.predictions = 1..n /\ DOMAIN evaluation.items = 1..n
  BY DEF ContractInv
<1>2. \A k \in 1..n : ItemOf(P(k)) = I(k)
  BY <1>1, ItemsFound
<1>3. ASSUME NEW c \in Categories
      PROVE  TruePositives(c) + FalseNegatives(c) = ItemsOf(LAMBDA i : i.truth = c)
  <2> DEFINE S == {k \in 1..n : P(k).says = c /\ ItemOf(P(k)).truth = c}
             T == {k \in 1..n : P(k).says # c /\ ItemOf(P(k)).truth = c}
  <2>1. TruePositives(c) = Cardinality(S) /\ FalseNegatives(c) = Cardinality(T)
    BY <1>1 DEF TruePositives, FalseNegatives, Counted
  <2>2. ItemsOf(LAMBDA i : i.truth = c) = Cardinality({k \in 1..n : I(k).truth = c})
    BY <1>1 DEF ItemsOf
  <2>3. S \cup T = {k \in 1..n : I(k).truth = c} /\ S \cap T = {} /\ S \cup T \subseteq 1..n
    BY <1>2
  <2> HIDE DEF S, T
  <2> QED
    BY <1>1, <2>1, <2>2, <2>3, Adds
<1>4. ASSUME NEW c \in Categories
      PROVE  TruePositives(c) + FalsePositives(c) = Counted(LAMBDA p : p.says = c)
  <2> DEFINE S == {k \in 1..n : P(k).says = c /\ ItemOf(P(k)).truth = c}
             T == {k \in 1..n : P(k).says = c /\ ItemOf(P(k)).truth # c}
  <2>1. TruePositives(c) = Cardinality(S) /\ FalsePositives(c) = Cardinality(T)
    BY <1>1 DEF TruePositives, FalsePositives, Counted
  <2>2. Counted(LAMBDA p : p.says = c) = Cardinality({k \in 1..n : P(k).says = c})
    BY <1>1 DEF Counted
  <2>3. S \cup T = {k \in 1..n : P(k).says = c} /\ S \cap T = {} /\ S \cup T \subseteq 1..n
    OBVIOUS
  <2> HIDE DEF S, T
  <2> QED
    BY <1>1, <2>1, <2>2, <2>3, Adds
<1>5. ASSUME NEW c \in Categories
      PROVE  Reviews(c) <= ItemsOf(LAMBDA i : i.truth = c)
  <2> DEFINE S == {k \in 1..n : ~P(k).sure /\ ItemOf(P(k)).truth = c}
             T == {k \in 1..n : I(k).truth = c}
  <2>1. Reviews(c) = Cardinality(S) /\ ItemsOf(LAMBDA i : i.truth = c) = Cardinality(T)
    BY <1>1 DEF Reviews, Counted, ItemsOf
  <2>2. S \subseteq T /\ T \subseteq 1..n
    BY <1>2
  <2> HIDE DEF S, T
  <2>3. IsFiniteSet(T)
    <3>1. IsFiniteSet(1..n)
      BY <1>1, FS_Interval
    <3> QED
      BY <2>2, <3>1, FS_Subset
  <2> QED
    BY <2>1, <2>2, <2>3, FS_Subset
<1>6. CohortSupport = ItemsOf(LAMBDA i : i.cohort)
  <2>1. CohortSupport = Cardinality({k \in 1..n : ItemOf(P(k)).cohort})
    BY <1>1 DEF CohortSupport, Counted
  <2>2. ItemsOf(LAMBDA i : i.cohort) = Cardinality({k \in 1..n : I(k).cohort})
    BY <1>1 DEF ItemsOf
  <2>3. {k \in 1..n : ItemOf(P(k)).cohort} = {k \in 1..n : I(k).cohort}
    BY <1>2
  <2> QED
    BY <2>1, <2>2, <2>3
<1> QED
  BY <1>3, <1>4, <1>5, <1>6 DEF CountsEachItem

\* A report counts every item of its dataset once, and every sample is of a redacted
\* text (gmail/evaluation/_contract.py, evaluation_service.py).
THEOREM EvaluationStaysSound == EvaluationSpec => []EvaluationIsSound
<1>1. FeedbackInit /\ EvaluationInit => SamplesInv /\ ContractInv
  BY FeedbackStarts, ContractStarts, EmptyContract DEF EvaluationInit
<1>2. ASSUME SamplesInv, ContractInv, [FeedbackNext \/ EvaluationNext]_evaluationVars
      PROVE  SamplesInv' /\ ContractInv'
  <2>1. [FeedbackNext]_feedbackVars /\ [EvaluationNext]_evaluation
    <3>1. CASE FeedbackNext
      <4>1. UNCHANGED evaluation
        BY <3>1 DEF FeedbackNext, ReadItem, ReadCorrection, CorrectItem, SelectForEvaluation,
           CommitToEvaluationSet, Abandon, Edits, Edited
      <4> QED
        BY <3>1, <4>1
    <3>2. CASE EvaluationNext
      <4>1. UNCHANGED feedbackVars
        BY <3>2 DEF EvaluationNext, Load, Predict, FailEvaluation, ReportIt
      <4> QED
        BY <3>2, <4>1
    <3>3. CASE UNCHANGED evaluationVars
      BY <3>3 DEF evaluationVars
    <3> QED
      BY <1>2, <3>1, <3>2, <3>3
  <2> QED
    BY <1>2, <2>1, FeedbackInductive, ContractInductive
<1>3. SamplesInv /\ ContractInv => EvaluationIsSound
  <2> SUFFICES ASSUME SamplesInv, ContractInv PROVE EvaluationIsSound
    OBVIOUS
  <2>1. ASSUME NEW s \in DOMAIN samples PROVE samples[s].text
    <3>1. samples[s] \in [of : Nat, text : {TRUE}, sender : {"as received"}]
      <4> DEFINE Sample == [of : Nat, text : {TRUE}, sender : {"as received"}]
      <4>1. samples \in Seq(Sample)
        BY DEF SamplesInv
      <4> HIDE DEF Sample
      <4>2. samples[s] \in Sample
        BY <4>1
      <4> QED
        BY <4>2 DEF Sample
    <3>2. samples[s].text = TRUE
      BY <3>1
    <3> QED
      BY <3>2
  <2> QED
    BY <2>1, ReportCounts DEF EvaluationIsSound
<1>4. EvaluationSpec => [](SamplesInv /\ ContractInv)
  BY <1>1, <1>2, PTL DEF EvaluationSpec
<1> QED
  BY <1>3, <1>4, PTL
===============================================================================
