----------------------------- MODULE AdminLogin -----------------------------
(***************************************************************************)
(* An admin signs in through the identity provider                         *)
(* (internal/api/authapi/handlers.go, internal/auth/session.go): one       *)
(* browser with several tabs and one cookie jar, replicas that keep no     *)
(* session but share the signing secret of JwtSecret, and the provider,    *)
(* whose codes can be exchanged once.                                      *)
(*                                                                         *)
(* A state is fresh and names the tab it was made for, so that a cookie is *)
(* the tab whose state it holds: a tab has no older one once it has a new. *)
(* Cookies are sent with a request and set when its answer arrives.  Tabs  *)
(* take turns in any order, which covers answers that overtake each other. *)
(***************************************************************************)
EXTENDS JwtSecret

CONSTANTS
  Tabs,
  Accounts,    \* who may sit in front of the browser
  Allowed,     \* those that allowed_emails and allowed_domains let in
  NoTab,       \* no state cookie
  NoAccount,   \* no session cookie
  MaxMishaps   \* bound on lost answers, provider errors, expired cookies

ASSUME AccountsAssumption == Allowed \subseteq Accounts /\ NoAccount \notin Accounts
ASSUME TabsAssumption == NoTab \notin Tabs
ASSUME MishapsAssumption == MaxMishaps \in Nat

VARIABLES
  account,   \* whom the provider knows the browser as
  cookie,    \* the state cookie: the tab of its state
  session,   \* the session cookie: whose it is and what it is signed with
  tab,       \* where each tab is in the flow
  mishaps

browserVars == <<account, cookie, session, tab, mishaps>>
vars == <<setting, server, drawn, crashes, account, cookie, session, tab, mishaps>>

Session == [account : Accounts \cup {NoAccount}, secret : Nat]
NoSession == [account |-> NoAccount, secret |-> NoSecret]

Tab == [pc : {"ui", "login", "provider", "callback", "exchange", "answer"},
        code : {"none", "fresh", "spent"},  \* of the URL
        at : Replicas,                      \* who handles the callback
        session : Session]                  \* of the answer

SomeReplica == CHOOSE r \in Replicas : TRUE
Resting == [pc |-> "ui", code |-> "none",
            at |-> SomeReplica, session |-> NoSession]

At(t, pc) == tab[t].pc = pc
InFlow(t) == ~At(t, "ui")

Mishap == mishaps < MaxMishaps /\ mishaps' = mishaps + 1

-----------------------------------------------------------------------------
(* The handlers                                                            *)

\* LoginHandler: a fresh state, in the cookie and in the redirect.
LoginHandler(t) ==
  /\ At(t, "login")
  /\ \E r \in Replicas : Serving(r)
  /\ cookie' = t
  /\ tab' = [tab EXCEPT ![t] = [Resting EXCEPT !.pc = "provider"]]
  /\ UNCHANGED <<account, session, mishaps, secretVars>>

\* CallbackHandler begins: without the matching cookie the flow starts over.
Callback(t) ==
  /\ At(t, "callback")
  /\ \E r \in Replicas :
       /\ Serving(r)
       /\ tab' = [tab EXCEPT ![t] = IF cookie = t
                                    THEN [@ EXCEPT !.pc = "exchange", !.at = r]
                                    ELSE [Resting EXCEPT !.pc = "login"]]
  /\ UNCHANGED <<account, cookie, session, mishaps, secretVars>>

\* Provider.Exchange: a code is good once, and the account has to be allowed.
Accepted(t) == tab[t].code = "fresh" /\ account \in Allowed

\* Seeded bug: the error of the e-mail check is not returned.
ExchangeAnyone(t) ==
  /\ At(t, "exchange") /\ Serving(tab[t].at)
  /\ tab[t].code = "fresh"
  /\ tab' = [tab EXCEPT ![t].pc = "answer", ![t].code = "spent",
       ![t].session = [account |-> account, secret |-> server[tab[t].at].secret]]
  /\ UNCHANGED <<account, cookie, session, mishaps, secretVars>>

\* Exchange and SessionManager.Create; the answer is on its way.
Exchange(t) ==
  /\ At(t, "exchange") /\ Serving(tab[t].at)
  /\ Accepted(t)
  /\ tab' = [tab EXCEPT ![t].pc = "answer", ![t].code = "spent",
       ![t].session = [account |-> account, secret |-> server[tab[t].at].secret]]
  /\ UNCHANGED <<account, cookie, session, mishaps, secretVars>>

\* Seeded bug: back to the provider's redirect instead of a new login.
ExchangeRetried(t) ==
  /\ At(t, "exchange") /\ Serving(tab[t].at)
  /\ IF Accepted(t) THEN Mishap ELSE UNCHANGED mishaps
  /\ tab' = [tab EXCEPT ![t].pc = "callback", ![t].code = "spent"]
  /\ UNCHANGED <<account, cookie, session, secretVars>>

\* A spent code, an account that is not allowed, or a provider that fails: the
\* answer drops the state cookie and sends the browser to a new login.
ExchangeFails(t) ==
  /\ At(t, "exchange") /\ Serving(tab[t].at)
  /\ IF Accepted(t) THEN Mishap ELSE UNCHANGED mishaps
  /\ cookie' = NoTab
  /\ tab' = [tab EXCEPT ![t] = [Resting EXCEPT !.pc = "login"]]
  /\ UNCHANGED <<account, session, secretVars>>

\* The answer arrives, with both cookies.
Answer(t) ==
  /\ At(t, "answer")
  /\ cookie' = NoTab
  /\ session' = tab[t].session
  /\ tab' = [tab EXCEPT ![t] = Resting]
  /\ UNCHANGED <<account, mishaps, secretVars>>

\* LogoutHandler clears the cookie; the token itself stays good.
LogoutHandler(t) ==
  /\ At(t, "ui")
  /\ session' = NoSession
  /\ UNCHANGED <<account, cookie, tab, mishaps, secretVars>>

\* adminAuthMiddleware and SessionHandler: the signature is all there is.
Verify(r, s) == server[r].secret = s.secret

-----------------------------------------------------------------------------
(* The browser and the provider                                            *)

StartLogin(t) ==
  /\ At(t, "ui")
  /\ tab' = [tab EXCEPT ![t] = [Resting EXCEPT !.pc = "login"]]
  /\ UNCHANGED <<account, cookie, session, mishaps, secretVars>>

\* The provider knows the user and redirects at once, with a new code.
Authorize(t) ==
  /\ At(t, "provider")
  /\ tab' = [tab EXCEPT ![t].pc = "callback", ![t].code = "fresh"]
  /\ UNCHANGED <<account, cookie, session, mishaps, secretVars>>

\* The answer does not arrive, or the replica is gone: the user reloads the
\* page, which sends the same state and code again.
Reload(t) ==
  /\ \/ At(t, "exchange") /\ ~Serving(tab[t].at) /\ UNCHANGED mishaps
     \/ At(t, "answer") /\ Mishap
  /\ tab' = [tab EXCEPT ![t].pc = "callback", ![t].session = NoSession,
                             ![t].at = SomeReplica]
  /\ UNCHANGED <<account, cookie, session, secretVars>>

Leave(t) ==
  /\ tab[t].pc \in {"login", "provider", "callback"}
  /\ tab' = [tab EXCEPT ![t] = Resting]
  /\ UNCHANGED <<account, cookie, session, mishaps, secretVars>>

StateExpires ==
  /\ cookie # NoTab
  /\ cookie' = NoTab
  /\ Mishap
  /\ UNCHANGED <<account, session, tab, secretVars>>

\* The cookie and the token in it expire together.
SessionExpires ==
  /\ session' = NoSession
  /\ UNCHANGED <<account, cookie, tab, mishaps, secretVars>>

-----------------------------------------------------------------------------

Init ==
  /\ SecretInit
  /\ account \in Accounts
  /\ cookie = NoTab
  /\ session = NoSession
  /\ tab = [t \in Tabs |-> Resting]
  /\ mishaps = 0

FlowStep(t) ==
  \/ LoginHandler(t)
  \/ Authorize(t)
  \/ Callback(t)
  \/ Exchange(t)
  \/ ExchangeFails(t)
  \/ Answer(t)
  \/ Reload(t)

Next ==
  \/ SecretNext /\ UNCHANGED browserVars
  \/ \E t \in Tabs : FlowStep(t) \/ StartLogin(t) \/ Leave(t) \/ LogoutHandler(t)
  \/ StateExpires
  \/ SessionExpires

Spec == Init /\ [][Next]_vars

\* Replicas start and are started again, and a flow that nobody leaves goes on.
Fairness ==
  /\ \A r \in Replicas : WF_vars(BootStep(r) /\ UNCHANGED browserVars)
  /\ \A t \in Tabs : WF_vars(FlowStep(t))

FairSpec == Spec /\ Fairness

-----------------------------------------------------------------------------
(* Properties                                                              *)

\* Type invariant.
TypeOK ==
  /\ SecretTypeOK
  /\ account \in Accounts
  /\ cookie \in Tabs \cup {NoTab}
  /\ session \in Session
  /\ tab \in [Tabs -> Tab]
  /\ mishaps \in 0..MaxMishaps

\* A session in the jar or on its way to it is that of an allowed account, and
\* every replica that serves honours it, whichever made it and whatever has
\* crashed and started since (SessionManager.Create and Verify under the
\* secret of GetOrCreateJWTSecret).
SessionsHonoured ==
  \A s \in {session} \cup {tab[t].session : t \in Tabs} :
    s # NoSession => /\ s.account \in Allowed
                     /\ \A r \in Replicas : Serving(r) => Verify(r, s)

Alone(t) == \A u \in Tabs \ {t} : ~InFlow(u)

\* An allowed user who keeps to one tab gets through the flow, although codes
\* are spent, answers lost, cookies dropped and replicas restarted on the way
\* (CallbackHandler's redirects to a new login).
AllowedGetsIn ==
  \A t \in Tabs :
    [](account \in Allowed /\ InFlow(t) /\ []Alone(t) => <>(~InFlow(t)))

\* handlers.go:100-101, a failed exchange is answered by a redirect to the login
\* "so the user can obtain a fresh code": a user in one tab gets out of the flow.
FreshCodeHelps ==
  \A t \in Tabs : [](InFlow(t) /\ []Alone(t) => <>(~InFlow(t)))

=============================================================================
