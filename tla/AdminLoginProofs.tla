-------------------------- MODULE AdminLoginProofs --------------------------
(***************************************************************************)
(* Theorems of JwtSecret and AdminLogin, for all replicas, tabs and        *)
(* accounts: the secret implements a write-once register, and the sessions *)
(* made with it are honoured by every replica.                             *)
(***************************************************************************)
EXTENDS AdminLogin, TLAPS

-----------------------------------------------------------------------------
(* The secret                                                              *)

\* The type invariant of the secret is inductive.
LEMMA SecretType ==
  ASSUME SecretTypeOK, [SecretNext]_secretVars
  PROVE  SecretTypeOK'
<1>1. CASE UNCHANGED secretVars
  BY <1>1 DEF secretVars, SecretTypeOK
<1>2. CASE SecretNext
  <2> PICK r \in Replicas : BootStep(r) \/ InsertUnacknowledged(r) \/ Crash(r)
    BY <1>2 DEF SecretNext
  <2> server[r] \in Server /\ Down \in Server /\ setting \in Nat
    BY DEF SecretTypeOK, Server, Down, NoSecret
  <2>m. ASSUME NEW from, NEW to \in {"select", "insert", "reread", "serving"},
               NEW s \in Nat, s <= drawn', drawn <= drawn', drawn' \in Nat,
               Move(r, from, to, s)
        PROVE  /\ server' \in [Replicas -> Server]
               /\ \A q \in Replicas : server'[q].secret <= drawn'
    <3>1. server' \in [Replicas -> Server]
      BY <2>m DEF Move, SecretTypeOK, Server
    <3>2. ASSUME NEW q \in Replicas PROVE server'[q].secret <= drawn'
      <4>1. server[q] \in Server /\ server[q].secret <= drawn /\ drawn \in Nat
        BY DEF SecretTypeOK
      <4>2. CASE q = r
        BY <4>2, <2>m DEF Move, SecretTypeOK
      <4>3. CASE q # r
        <5>1. server'[q] = server[q]
          BY <4>3, <2>m DEF Move, SecretTypeOK
        <5>2. QED
          BY <4>1, <5>1, <2>m DEF Server
      <4>4. QED
        BY <4>2, <4>3
    <3>3. QED
      BY <3>1, <3>2
  <2>d. ASSUME server' = [server EXCEPT ![r] = Down], UNCHANGED drawn
        PROVE  /\ server' \in [Replicas -> Server]
               /\ \A q \in Replicas : server'[q].secret <= drawn'
    BY <2>d DEF SecretTypeOK, Down, NoSecret
  <2>i. server[r].secret \in 0..drawn
    BY DEF SecretTypeOK, Server
  <2>1. CASE Boot(r)
    BY <2>1, <2>m DEF Boot, SecretTypeOK, NoSecret
  <2>2. CASE FindSecret(r)
    BY <2>2, <2>m DEF FindSecret, SecretTypeOK
  <2>3. CASE GenerateSecret(r)
    <3>1. drawn' \in Nat /\ drawn + 1 \in Nat /\ drawn <= drawn' /\ drawn + 1 <= drawn'
      BY <2>3 DEF GenerateSecret, SecretTypeOK
    <3>2. /\ server' \in [Replicas -> Server]
          /\ \A q \in Replicas : server'[q].secret <= drawn'
      BY <2>3, <2>m, <3>1 DEF GenerateSecret
    <3>3. crashes' \in 0..MaxCrashes
      BY <2>3, CrashesAssumption DEF GenerateSecret, Crashes, SecretTypeOK
    <3>4. setting' \in 0..drawn'
      BY <2>3 DEF GenerateSecret, SecretTypeOK
    <3>5. QED
      BY <3>1, <3>2, <3>3, <3>4 DEF SecretTypeOK
  <2>4. CASE InsertSecret(r)
    BY <2>4, <2>m, <2>i DEF InsertSecret, SecretTypeOK
  <2>5. CASE RereadSecret(r)
    <3>1. setting \in Nat /\ setting <= drawn' /\ drawn <= drawn' /\ drawn' \in Nat
      BY <2>5 DEF RereadSecret, SecretTypeOK
    <3>2. /\ server' \in [Replicas -> Server]
          /\ \A q \in Replicas : server'[q].secret <= drawn'
      BY <2>5, <2>m, <3>1 DEF RereadSecret
    <3>3. QED
      BY <2>5, <3>1, <3>2 DEF RereadSecret, SecretTypeOK
  <2>6. CASE InsertUnacknowledged(r)
    BY <2>6, <2>d, <2>i, CrashesAssumption DEF InsertUnacknowledged, Crashes, SecretTypeOK
  <2>7. CASE Crash(r)
    BY <2>7, <2>d, CrashesAssumption DEF Crash, Crashes, SecretTypeOK
  <2>8. QED
    BY <2>1, <2>2, <2>3, <2>4, <2>5, <2>6, <2>7 DEF BootStep
<1>3. QED
  BY <1>1, <1>2

\* So is the agreement of those who serve.
LEMMA SecretStep ==
  ASSUME SecretTypeOK, SecretShared, [SecretNext]_secretVars
  PROVE  SecretShared'
<1>1. CASE UNCHANGED secretVars
  BY <1>1 DEF secretVars, SecretShared, Serving
<1>2. CASE SecretNext
  <2> PICK r \in Replicas : BootStep(r) \/ InsertUnacknowledged(r) \/ Crash(r)
    BY <1>2 DEF SecretNext
  <2> server \in [Replicas -> Server] /\ setting \in Nat
    BY DEF SecretTypeOK
  <2> USE DEF SecretShared, Serving, Move, NoSecret
  <2>1. CASE Boot(r)
    BY <2>1 DEF Boot
  <2>2. CASE FindSecret(r)
    BY <2>2 DEF FindSecret
  <2>3. CASE GenerateSecret(r)
    BY <2>3 DEF GenerateSecret, SecretTypeOK
  <2>4. CASE InsertSecret(r)
    BY <2>4 DEF InsertSecret
  <2>5. CASE RereadSecret(r)
    BY <2>5 DEF RereadSecret
  <2>6. CASE InsertUnacknowledged(r)
    BY <2>6 DEF InsertUnacknowledged, Down
  <2>7. CASE Crash(r)
    BY <2>7 DEF Crash, Down
  <2>8. QED
    BY <2>1, <2>2, <2>3, <2>4, <2>5, <2>6, <2>7 DEF BootStep
<1>3. QED
  BY <1>1, <1>2

\* Every step of the replicas is a step of the register, or none.
LEMMA SecretSimulates ==
  ASSUME SecretTypeOK, SecretShared, [SecretNext]_secretVars
  PROVE  [Register!Next]_(Register!vars)
<1> SUFFICES ASSUME SecretNext
             PROVE  Register!Next \/ UNCHANGED <<setting, Held>>
  BY DEF Register!vars, secretVars, Held, Serving
<1> PICK r \in Replicas : BootStep(r) \/ InsertUnacknowledged(r) \/ Crash(r)
  BY DEF SecretNext
<1> server \in [Replicas -> Server] /\ setting \in Nat /\ server[r] \in Server
  BY DEF SecretTypeOK
<1>s. ASSUME ~Serving(r), ~Serving(r)',
             NEW s, server' = [server EXCEPT ![r] = s]
      PROVE  UNCHANGED Held
  BY <1>s DEF Held, Serving
<1>r. ASSUME setting # NoSecret, UNCHANGED setting,
             server' = [server EXCEPT ![r] = [pc |-> "serving", secret |-> setting]]
      PROVE  Register!Next
  <2>1. Held' = [Held EXCEPT ![r] = setting]
    BY <1>r DEF Held, Serving
  <2>2. QED
    BY <1>r, <2>1 DEF Register!Next, Register!Read
<1>w. ASSUME setting' = IF setting = NoSecret THEN server[r].secret ELSE setting,
             server[r].pc = "insert", UNCHANGED Held
      PROVE  Register!Next \/ UNCHANGED <<setting, Held>>
  <2>1. server[r].secret \in Secrets
    BY <1>w DEF SecretShared, Server, Secrets, NoSecret
  <2>2. QED
    BY <1>w, <2>1 DEF Register!Next, Register!Choose
<1>1. CASE Boot(r)
  <2>1. UNCHANGED Held
    BY <1>1, <1>s DEF Boot, Move, Serving
  <2>2. QED
    BY <1>1, <2>1 DEF Boot
<1>2. CASE FindSecret(r)
  BY <1>2, <1>r DEF FindSecret, Move
<1>3. CASE GenerateSecret(r)
  <2>1. UNCHANGED Held
    BY <1>3, <1>s DEF GenerateSecret, Move, Serving
  <2>2. QED
    BY <1>3, <2>1 DEF GenerateSecret
<1>4. CASE InsertSecret(r)
  <2>1. UNCHANGED Held
    BY <1>4, <1>s DEF InsertSecret, Move, Serving
  <2>2. QED
    BY <1>4, <2>1, <1>w DEF InsertSecret, Move
<1>5. CASE RereadSecret(r)
  BY <1>5, <1>r DEF RereadSecret, Move
<1>6. CASE InsertUnacknowledged(r)
  <2>1. UNCHANGED Held
    BY <1>6, <1>s DEF InsertUnacknowledged, Down, Serving
  <2>2. QED
    BY <1>6, <2>1, <1>w DEF InsertUnacknowledged
<1>7. CASE Crash(r)
  <2>1. Held' = [Held EXCEPT ![r] = NoSecret]
    BY <1>7 DEF Crash, Down, Held, Serving
  <2>2. QED
    BY <1>7, <2>1 DEF Crash, Register!Next, Register!Forget
<1>8. QED
  BY <1>1, <1>2, <1>3, <1>4, <1>5, <1>6, <1>7 DEF BootStep

\* Replicas that race for the secret, crash and start again implement the
\* register: one secret, chosen once (GetOrCreateJWTSecret).
THEOREM SecretImplementsRegister == SecretSpec => SecretIsOnce
<1>1. SecretInit => SecretTypeOK /\ SecretShared /\ Register!Init
  BY CrashesAssumption DEF SecretInit, SecretTypeOK, SecretShared, Server, Down, Serving,
     NoSecret, Register!Init, Held
<1>2. SecretTypeOK /\ SecretShared /\ [SecretNext]_secretVars
        => (SecretTypeOK /\ SecretShared)' /\ [Register!Next]_(Register!vars)
  BY SecretType, SecretStep, SecretSimulates
<1>3. QED
  BY <1>1, <1>2, PTL DEF SecretSpec, SecretIsOnce, Register!Spec

\* What the register promises: whoever reads it has its one value for good, and
\* that value stays.
LEMMA RegisterPromises ==
  Register!Spec => []Register!Agreement /\ Register!WrittenOnce
<1>1. Register!Init => Register!Agreement
  BY DEF Register!Init, Register!Agreement
<1>2. Register!Agreement /\ [Register!Next]_(Register!vars)
        => Register!Agreement' /\ [setting # NoSecret => UNCHANGED setting]_(Register!vars)
  <2> SUFFICES ASSUME Register!Agreement, [Register!Next]_(Register!vars)
               PROVE  /\ Register!Agreement'
                      /\ setting # NoSecret => UNCHANGED setting
    OBVIOUS
  <2>1. CASE UNCHANGED Register!vars
    BY <2>1 DEF Register!vars, Register!Agreement
  <2>2. CASE Register!Choose
    BY <2>2 DEF Register!Choose, Register!Agreement
  <2>3. ASSUME NEW r \in Replicas, Register!Read(r) \/ Register!Forget(r)
        PROVE  Register!Agreement' /\ UNCHANGED setting
    BY <2>3 DEF Register!Read, Register!Forget, Register!Agreement
  <2>4. QED
    BY <2>1, <2>2, <2>3 DEF Register!Next
<1>3. QED
  BY <1>1, <1>2, PTL DEF Register!Spec, Register!WrittenOnce

\* So replicas agree on the secret, whenever they read it, and a secret that was
\* stored signs for good: no token is ever voided by a start, a crash or a race
\* (GetOrCreateJWTSecret).
THEOREM SecretStays == SecretSpec => []Register!Agreement /\ Register!WrittenOnce
BY SecretImplementsRegister, RegisterPromises DEF SecretIsOnce

-----------------------------------------------------------------------------
(* The sign-in                                                             *)

USE DEF NoSecret

LEMMA Records ==
  /\ NoSession \in Session
  /\ Resting \in Tab
  /\ \A t \in Tab : t.session \in Session
<1>1. SomeReplica \in Replicas
  BY ReplicasAssumption DEF SomeReplica
<1>2. QED
  BY <1>1 DEF NoSession, Session, Resting, Tab

\* Whatever the browser does, the replicas take their steps or none.
LEMMA SecretInSpec == [Next]_vars => [SecretNext]_secretVars
<1> SUFFICES ASSUME [Next]_vars PROVE [SecretNext]_secretVars
  OBVIOUS
<1>1. CASE UNCHANGED vars
  BY <1>1 DEF vars, secretVars
<1>2. CASE Next
  BY <1>2 DEF Next, FlowStep, StateExpires, SessionExpires, LoginHandler, Authorize,
     Callback, Exchange, ExchangeFails, Answer, Reload, StartLogin, Leave, LogoutHandler
<1>3. QED
  BY <1>1, <1>2

\* The type invariant of the browser is inductive.
LEMMA BrowserType ==
  ASSUME TypeOK, Next
  PROVE  TypeOK'
<1>s. SecretTypeOK'
  BY SecretInSpec, SecretType DEF TypeOK
<1>m. ASSUME Mishap PROVE mishaps' \in 0..MaxMishaps
  BY <1>m, MishapsAssumption DEF TypeOK, Mishap
<1>1. CASE SecretNext /\ UNCHANGED browserVars
  BY <1>1, <1>s DEF TypeOK, browserVars
<1>2. ASSUME NEW t \in Tabs,
             FlowStep(t) \/ StartLogin(t) \/ Leave(t) \/ LogoutHandler(t)
      PROVE  TypeOK'
  <2> USE <1>s, Records DEF TypeOK
  <2>t. tab[t] \in Tab
    OBVIOUS
  <2>u. ASSUME NEW u \in Tab, tab' = [tab EXCEPT ![t] = u]
        PROVE  tab' \in [Tabs -> Tab]
    BY <2>u
  <2>l. [Resting EXCEPT !.pc = "login"] \in Tab
    BY DEF Tab
  <2>1. CASE LoginHandler(t)
    <3>1. [Resting EXCEPT !.pc = "provider"] \in Tab
      BY DEF Tab
    <3>2. QED
      BY <2>1, <3>1 DEF LoginHandler
  <2>2. CASE Authorize(t)
    <3>1. [tab[t] EXCEPT !.pc = "callback", !.code = "fresh"] \in Tab
      BY <2>t DEF Tab
    <3>2. tab' = [tab EXCEPT ![t] = [tab[t] EXCEPT !.pc = "callback", !.code = "fresh"]]
      BY <2>2 DEF Authorize
    <3>3. QED
      BY <2>2, <3>1, <3>2 DEF Authorize
  <2>3. CASE Callback(t)
    <3>1. PICK r \in Replicas :
            tab' = [tab EXCEPT ![t] = IF cookie = t
                                      THEN [@ EXCEPT !.pc = "exchange", !.at = r]
                                      ELSE [Resting EXCEPT !.pc = "login"]]
      BY <2>3 DEF Callback
    <3>2. [tab[t] EXCEPT !.pc = "exchange", !.at = r] \in Tab
      BY <2>t DEF Tab
    <3>3. tab' \in [Tabs -> Tab]
      BY <3>1, <3>2, <2>l
    <3>4. QED
      BY <2>3, <3>3 DEF Callback
  <2>4. CASE Exchange(t)
    <3> DEFINE s == [account |-> account, secret |-> server[tab[t].at].secret]
    <3>1. s \in Session
      BY <2>t DEF Tab, Session, SecretTypeOK, Server
    <3>2. [tab[t] EXCEPT !.pc = "answer", !.code = "spent", !.session = s] \in Tab
      BY <2>t, <3>1 DEF Tab
    <3>3. tab' = [tab EXCEPT ![t] =
                    [tab[t] EXCEPT !.pc = "answer", !.code = "spent", !.session = s]]
      BY <2>4 DEF Exchange
    <3> HIDE DEF s
    <3>4. tab' \in [Tabs -> Tab]
      BY <3>2, <3>3, <2>u
    <3>5. QED
      BY <2>4, <3>4 DEF Exchange
  <2>5. CASE ExchangeFails(t)
    <3>1. tab' \in [Tabs -> Tab]
      BY <2>5, <2>l DEF ExchangeFails
    <3>2. mishaps' \in 0..MaxMishaps
      BY <2>5, <1>m DEF ExchangeFails
    <3>3. QED
      BY <2>5, <3>1, <3>2 DEF ExchangeFails
  <2>6. CASE Answer(t)
    BY <2>6, <2>t DEF Answer
  <2>7. CASE Reload(t)
    <3> DEFINE u == [tab[t] EXCEPT !.pc = "callback", !.session = NoSession,
                                   !.at = SomeReplica]
    <3>1. u \in Tab
      BY <2>t, ReplicasAssumption DEF Tab, SomeReplica
    <3>2. tab' = [tab EXCEPT ![t] = u]
      BY <2>7 DEF Reload
    <3> HIDE DEF u
    <3>3. mishaps' \in 0..MaxMishaps
      BY <2>7, <1>m DEF Reload
    <3>4. tab' \in [Tabs -> Tab]
      BY <3>1, <3>2, <2>u
    <3>5. QED
      BY <2>7, <3>3, <3>4 DEF Reload
  <2>8. CASE StartLogin(t)
    BY <2>8, <2>l DEF StartLogin
  <2>9. CASE Leave(t)
    BY <2>9 DEF Leave
  <2>10. CASE LogoutHandler(t)
    BY <2>10 DEF LogoutHandler
  <2>11. QED
    BY <1>2, <2>1, <2>2, <2>3, <2>4, <2>5, <2>6, <2>7, <2>8, <2>9, <2>10 DEF FlowStep
<1>3. CASE StateExpires
  BY <1>3, <1>s, <1>m DEF TypeOK, StateExpires
<1>4. CASE SessionExpires
  BY <1>4, <1>s, Records DEF TypeOK, SessionExpires
<1>5. QED
  BY <1>1, <1>2, <1>3, <1>4 DEF Next

\* Type correctness of the sign-in and of the secret under it.
THEOREM TypeCorrect == Spec => []TypeOK
<1>1. Init => TypeOK
  BY Records, CrashesAssumption, MishapsAssumption
     DEF Init, TypeOK, SecretInit, SecretTypeOK, Server, Down
<1>2. TypeOK /\ [Next]_vars => TypeOK'
  <2> SUFFICES ASSUME TypeOK, [Next]_vars PROVE TypeOK'
    OBVIOUS
  <2>1. CASE UNCHANGED vars
    BY <2>1 DEF vars, TypeOK, SecretTypeOK
  <2>2. QED
    BY <2>1, BrowserType
<1>3. QED
  BY <1>1, <1>2, PTL DEF Spec

-----------------------------------------------------------------------------
(* Sessions                                                                *)

\* What makes a session good wherever it is: the stored secret has signed it,
\* which a replica held that had to agree with the setting to serve.
Good(s) ==
  s # NoSession => /\ s.account \in Allowed
                   /\ s.secret = setting
                   /\ setting # NoSecret

SessionInv ==
  /\ Good(session)
  /\ \A t \in Tabs : Good(tab[t].session)

\* A tab step that leaves its tab with an old session, none, or a good new one
\* keeps them all good.
LEMMA TabKeeps ==
  ASSUME TypeOK, SessionInv, UNCHANGED secretVars,
         NEW t \in Tabs, NEW u, tab' = [tab EXCEPT ![t] = u], Good(u.session),
         session' \in {session, NoSession} \cup {tab[q].session : q \in Tabs}
  PROVE  SessionInv'
<1>1. tab \in [Tabs -> Tab] /\ setting' = setting
  BY DEF TypeOK, secretVars
<1>2. Good(session') /\ \A q \in Tabs : Good(tab'[q].session)
  BY <1>1 DEF SessionInv, Good
<1>3. QED
  BY <1>1, <1>2 DEF SessionInv, Good

LEMMA SessionStep ==
  ASSUME TypeOK, SecretShared, SessionInv, Next
  PROVE  SessionInv'
<1>n. Good(NoSession)
  BY DEF Good
<1>1. CASE SecretNext /\ UNCHANGED browserVars
  <2>1. setting # NoSecret => setting' = setting
    BY <1>1 DEF SecretNext, BootStep, Boot, FindSecret, GenerateSecret, InsertSecret,
       RereadSecret, InsertUnacknowledged, Crash
  <2>2. UNCHANGED <<session, tab>>
    BY <1>1 DEF browserVars
  <2>3. QED
    BY <2>1, <2>2 DEF SessionInv, Good
<1>2. ASSUME NEW t \in Tabs,
             FlowStep(t) \/ StartLogin(t) \/ Leave(t) \/ LogoutHandler(t)
      PROVE  SessionInv'
  <2> USE <1>n
  <2>t. tab \in [Tabs -> Tab] /\ tab[t] \in Tab /\ Good(tab[t].session)
    BY DEF TypeOK, SessionInv
  <2>r. ASSUME NEW pc PROVE Good([Resting EXCEPT !.pc = pc].session) /\ Good(Resting.session)
    BY DEF Resting
  <2>1. CASE LoginHandler(t)
    BY <2>1, <2>r, TabKeeps DEF LoginHandler
  <2>2. CASE Authorize(t)
    <3>1. /\ tab' = [tab EXCEPT ![t] = [tab[t] EXCEPT !.pc = "callback", !.code = "fresh"]]
          /\ [tab[t] EXCEPT !.pc = "callback", !.code = "fresh"].session = tab[t].session
      BY <2>2, <2>t DEF Authorize, Tab
    <3>2. QED
      BY <2>2, <2>t, <3>1, TabKeeps DEF Authorize
  <2>3. CASE Callback(t)
    <3>1. PICK r \in Replicas :
            tab' = [tab EXCEPT ![t] = IF cookie = t
                                      THEN [@ EXCEPT !.pc = "exchange", !.at = r]
                                      ELSE [Resting EXCEPT !.pc = "login"]]
      BY <2>3 DEF Callback
    <3>2. [tab[t] EXCEPT !.pc = "exchange", !.at = r].session = tab[t].session
      BY <2>t DEF Tab
    <3>3. CASE cookie = t
      BY <2>3, <2>t, <3>1, <3>2, <3>3, TabKeeps DEF Callback
    <3>4. CASE cookie # t
      BY <2>3, <2>r, <3>1, <3>4, TabKeeps DEF Callback
    <3>5. QED
      BY <3>3, <3>4
  <2>4. CASE Exchange(t)
    <3> DEFINE s == [account |-> account, secret |-> server[tab[t].at].secret]
               u == [tab[t] EXCEPT !.pc = "answer", !.code = "spent", !.session = s]
    <3>1. tab[t].at \in Replicas /\ Serving(tab[t].at)
      BY <2>4, <2>t DEF Exchange, Tab
    <3>2. Good(s)
      BY <2>4, <3>1 DEF Exchange, Accepted, SecretShared, Good
    <3>3. u.session = s
      BY <2>t DEF Tab
    <3>4. tab' = [tab EXCEPT ![t] = u]
      BY <2>4 DEF Exchange
    <3>5. UNCHANGED <<session, secretVars>>
      BY <2>4 DEF Exchange
    <3> HIDE DEF s, u
    <3>6. QED
      BY <3>2, <3>3, <3>4, <3>5, TabKeeps
  <2>5. CASE ExchangeFails(t)
    BY <2>5, <2>r, TabKeeps DEF ExchangeFails
  <2>6. CASE Answer(t)
    BY <2>6, <2>r, TabKeeps DEF Answer
  <2>7. CASE Reload(t)
    <3> DEFINE u == [tab[t] EXCEPT !.pc = "callback", !.session = NoSession,
                                   !.at = SomeReplica]
    <3>1. u.session = NoSession
      BY <2>t DEF Tab
    <3>2. tab' = [tab EXCEPT ![t] = u] /\ UNCHANGED <<session, secretVars>>
      BY <2>7 DEF Reload
    <3> HIDE DEF u
    <3>3. QED
      BY <3>1, <3>2, TabKeeps
  <2>8. CASE StartLogin(t)
    BY <2>8, <2>r, TabKeeps DEF StartLogin
  <2>9. CASE Leave(t)
    BY <2>9, <2>r, TabKeeps DEF Leave
  <2>10. CASE LogoutHandler(t)
    BY <2>10 DEF LogoutHandler, SessionInv, Good, secretVars
  <2>11. QED
    BY <1>2, <2>1, <2>2, <2>3, <2>4, <2>5, <2>6, <2>7, <2>8, <2>9, <2>10 DEF FlowStep
<1>3. CASE StateExpires
  BY <1>3 DEF StateExpires, SessionInv, Good, secretVars
<1>4. CASE SessionExpires
  BY <1>4 DEF SessionExpires, SessionInv, Good, secretVars
<1>5. QED
  BY <1>1, <1>2, <1>3, <1>4 DEF Next

\* What every replica that serves makes of a good session.
LEMMA GoodHonoured ==
  ASSUME SecretShared, SessionInv
  PROVE  SessionsHonoured
BY DEF SecretShared, SessionInv, Good, SessionsHonoured, Verify

\* The sign-in runs the secret, and the secret does what it promises.
THEOREM SignInSharesSecret == Spec => SecretSpec /\ SecretIsOnce
<1>1. Init => SecretInit
  BY DEF Init
<1>2. [Next]_vars => [SecretNext]_secretVars
  BY SecretInSpec
<1>3. Spec => SecretSpec
  BY <1>1, <1>2, PTL DEF Spec, SecretSpec
<1>4. QED
  BY <1>3, SecretImplementsRegister

\* Sessions are those of allowed accounts and every replica honours them,
\* through races at the first start, crashes, reloads and lost answers.
THEOREM SessionsAreHonoured == Spec => []SessionsHonoured
<1>1. Init => SecretShared /\ SessionInv
  BY DEF Init, SecretInit, SecretShared, Down, Serving, SessionInv, Good, Resting
<1>2. TypeOK /\ SecretShared /\ SessionInv /\ [Next]_vars => (SecretShared /\ SessionInv)'
  <2> SUFFICES ASSUME TypeOK, SecretShared, SessionInv, [Next]_vars
               PROVE  (SecretShared /\ SessionInv)'
    OBVIOUS
  <2>1. SecretShared'
    BY SecretInSpec, SecretStep DEF TypeOK
  <2>2. CASE UNCHANGED vars
    BY <2>1, <2>2 DEF vars, SessionInv, Good
  <2>3. QED
    BY <2>1, <2>2, SessionStep
<1>3. SecretShared /\ SessionInv => SessionsHonoured
  BY GoodHonoured
<1>4. QED
  BY <1>1, <1>2, <1>3, TypeCorrect, PTL DEF Spec

=============================================================================
