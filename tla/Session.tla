------------------------------- MODULE Session -------------------------------
(***************************************************************************)
(* The session of a browser: AuthContext, the login form and the gate of   *)
(* the dashboard in every tab, over the accounts of the backend.  Other    *)
(* clients use the same accounts.                                          *)
(*                                                                         *)
(* React runs an effect, and the cleanup of the one before it, some time   *)
(* after the state was set, except for a click, whose effects run at once: *)
(* until CommitToken the check of the former token may still be answered.  *)
(***************************************************************************)
EXTENDS Accounts

CONSTANTS
  Tabs,       \* tabs of one browser
  NoToken, NoUser,
  MaxLoads    \* bound: times a tab is loaded again

\* iat is the second of issue: the same one, or another.
Tokens == [email : Emails, era : 0..MaxExpiries, iat : 0..1]

ASSUME TabsAssumption == Tabs \subseteq Clients
ASSUME NoTokenAssumption == NoToken \notin Tokens
ASSUME NoUserAssumption == NoUser \notin Emails

VARIABLES
  storage,   \* localStorage['pulseboard.token'], shared by the tabs
  token, user, loading,   \* AuthContext's state
  effect,    \* the token of the effect that ran last
  check,     \* its request for me: what the backend made of it, and whose it is
  busy,      \* the form's request is awaited
  loads,     \* what is used of the bound
  typed,     \* history: emails whose password was typed in this browser
  last,      \* history: the tab in which the user signed in or out last
  cut        \* history: since then a tab gave up a token nobody signed out of

tabs == <<storage, token, user, loading, effect, check, busy>>
vars == <<accounts, tabs, loads, typed, last, cut>>

NoCheck == [state |-> "none", owner |-> NoUser]
Sent == [state |-> "sent", owner |-> NoUser]

Init == /\ AccountsInit
        /\ storage = NoToken
        /\ token   = [t \in Tabs |-> NoToken]
        /\ user    = [t \in Tabs |-> NoUser]
        /\ loading = [t \in Tabs |-> FALSE]
        /\ effect  = [t \in Tabs |-> NoToken]
        /\ check   = [t \in Tabs |-> NoCheck]
        /\ busy    = [t \in Tabs |-> FALSE]
        /\ loads = 0 /\ typed = {}
        /\ last \in Tabs /\ cut = FALSE

(***************************************************************************)
(* The provider.                                                           *)
(***************************************************************************)
\* Bug: without a token the effect returns before setLoading(false).
LoadForEver(t) ==
  /\ loads < MaxLoads
  /\ loads' = loads + 1
  /\ token'   = [token   EXCEPT ![t] = storage]
  /\ effect'  = [effect  EXCEPT ![t] = storage]
  /\ user'    = [user    EXCEPT ![t] = NoUser]
  /\ loading' = [loading EXCEPT ![t] = TRUE]
  /\ check'   = [check   EXCEPT ![t] = IF storage = NoToken THEN NoCheck ELSE Sent]
  /\ busy'    = [busy    EXCEPT ![t] = FALSE]
  /\ UNCHANGED <<accounts, storage, typed, last, cut>>

\* The page is loaded: token from the storage, then the effect.
Load(t) ==
  /\ loads < MaxLoads
  /\ loads' = loads + 1
  /\ token'   = [token   EXCEPT ![t] = storage]
  /\ effect'  = [effect  EXCEPT ![t] = storage]
  /\ user'    = [user    EXCEPT ![t] = NoUser]
  /\ loading' = [loading EXCEPT ![t] = storage # NoToken]
  /\ check'   = [check   EXCEPT ![t] = IF storage = NoToken THEN NoCheck ELSE Sent]
  /\ busy'    = [busy    EXCEPT ![t] = FALSE]
  /\ UNCHANGED <<accounts, storage, typed, last, cut>>

\* Bug: no cancelled flag; the answer of the former check is used under the new token.
CommitTokenUncancelled(t) ==
  /\ effect[t] # token[t]
  /\ effect' = [effect EXCEPT ![t] = token[t]]
  /\ check' = [check EXCEPT ![t] = IF token[t] = NoToken THEN NoCheck
                                    ELSE IF @ = NoCheck THEN Sent ELSE @]
  /\ loading' = IF token[t] = NoToken THEN [loading EXCEPT ![t] = FALSE] ELSE loading
  /\ UNCHANGED <<accounts, storage, token, user, busy, loads, typed, last, cut>>

\* The cleanup of the effect and the effect, after the token changed.
CommitToken(t) ==
  /\ effect[t] # token[t]
  /\ effect' = [effect EXCEPT ![t] = token[t]]
  /\ check' = [check EXCEPT ![t] = IF token[t] = NoToken THEN NoCheck ELSE Sent]
  /\ loading' = IF token[t] = NoToken THEN [loading EXCEPT ![t] = FALSE] ELSE loading
  /\ UNCHANGED <<accounts, storage, token, user, busy, loads, typed, last, cut>>

\* The backend answers me.
ServeCheck(t) ==
  /\ check[t] = Sent
  /\ check' = [check EXCEPT ![t] =
       IF Accepts(effect[t]) THEN [state |-> "ok", owner |-> effect[t].email]
                             ELSE [state |-> "refused", owner |-> NoUser]]
  /\ UNCHANGED <<accounts, storage, token, user, loading, effect, busy, loads, typed, last, cut>>

\* The connection fails instead.
CheckFails(t) ==
  /\ check[t] = Sent
  /\ failures < MaxFailures
  /\ failures' = failures + 1
  /\ check' = [check EXCEPT ![t].state = "failed"]
  /\ UNCHANGED <<users, request, era, requests, storage, token, user, loading, effect, busy,
                 loads, typed, last, cut>>

SignOut(t) == /\ storage' = NoToken
              /\ token' = [token EXCEPT ![t] = NoToken]
              /\ user'  = [user  EXCEPT ![t] = NoUser]

\* The tab is signed out, not by its user.
GiveUp(t) == /\ SignOut(t)
             /\ cut' = TRUE
             /\ UNCHANGED last

\* .then and .finally; any rejection, whatever its cause, ends the session.
Checked(t) ==
  /\ check[t].state \in {"ok", "refused", "failed"}
  /\ \/ /\ check[t].state = "ok"
        /\ user' = [user EXCEPT ![t] = check[t].owner]
        /\ UNCHANGED <<storage, token, last, cut>>
     \/ /\ check[t].state # "ok"
        /\ GiveUp(t)
  /\ loading' = [loading EXCEPT ![t] = FALSE]
  /\ check' = [check EXCEPT ![t] = NoCheck]
  /\ UNCHANGED <<accounts, effect, busy, loads, typed>>

(***************************************************************************)
(* The login form.                                                         *)
(***************************************************************************)
SubmitForm(t, f) ==
  /\ user[t] = NoUser
  /\ ~ busy[t]
  /\ Submit(t, f)
  /\ busy' = [busy EXCEPT ![t] = TRUE]
  /\ UNCHANGED <<storage, token, user, loading, effect, check, loads, typed, last, cut>>

\* What accept is given: when the tab holds a token of the same account and key, that
\* one or, issued in another second, another one.
Issued(t) == {k \in Tokens : /\ k.email = Lower[form[t].email] /\ k.era = issuedIn[t]
                             /\ k.iat = 0 \/ token[t] \in {k, [k EXCEPT !.iat = 0]}}

\* Bug: accept does not write the storage.
FormAnsweredUnstored(t) ==
  /\ Take(t)
  /\ busy' = [busy EXCEPT ![t] = FALSE]
  /\ LET email == Lower[form[t].email] IN
       IF busy[t] /\ status[t] \in {"created", "ok"}
       THEN /\ \E k \in Issued(t) : token' = [token EXCEPT ![t] = k]
            /\ user' = [user EXCEPT ![t] = email]
            /\ typed' = IF \E u \in users : u.email = email /\ u.password = form[t].password
                        THEN typed \cup {email} ELSE typed
            /\ last' = t /\ cut' = FALSE
            /\ UNCHANGED storage
       ELSE UNCHANGED <<storage, token, user, typed, last, cut>>
  /\ UNCHANGED <<loading, effect, check, loads>>

\* The answer: accept, or the error.  Nobody waits for it in a page loaded since.
FormAnswered(t) ==
  /\ Take(t)
  /\ busy' = [busy EXCEPT ![t] = FALSE]
  /\ LET email == Lower[form[t].email] IN
       IF busy[t] /\ status[t] \in {"created", "ok"}
       THEN /\ storage' \in Issued(t)
            /\ token' = [token EXCEPT ![t] = storage']
            /\ user' = [user EXCEPT ![t] = email]
            /\ typed' = IF \E u \in users : u.email = email /\ u.password = form[t].password
                        THEN typed \cup {email} ELSE typed
            /\ last' = t /\ cut' = FALSE
       ELSE UNCHANGED <<storage, token, user, typed, last, cut>>
  /\ UNCHANGED <<loading, effect, check, loads>>

\* The connection fails, the request goes on.
FormFails(t) ==
  /\ busy[t]
  /\ failures < MaxFailures
  /\ failures' = failures + 1
  /\ busy' = [busy EXCEPT ![t] = FALSE]
  /\ UNCHANGED <<users, request, era, requests, storage, token, user, loading, effect, check,
                 loads, typed, last, cut>>

(***************************************************************************)
(* The dashboard.                                                          *)
(***************************************************************************)
Dashboard(t) == user[t] # NoUser /\ ~ loading[t]

\* A click on Sign out: the effect runs at once.
LogOut(t) ==
  /\ Dashboard(t)
  /\ SignOut(t)
  /\ last' = t /\ cut' = FALSE
  /\ effect' = [effect EXCEPT ![t] = NoToken]
  /\ check' = [check EXCEPT ![t] = NoCheck]
  /\ UNCHANGED <<accounts, loading, busy, loads, typed>>

\* The socket is refused: onUnauthorized.
SocketRefused(t) ==
  /\ Dashboard(t)
  /\ effect[t] # NoToken
  /\ ~ Accepts(effect[t])
  /\ GiveUp(t)
  /\ UNCHANGED <<accounts, loading, effect, check, busy, loads, typed>>

Elsewhere(c) == \/ \E f \in Forms : Submit(c, f)
                \/ Take(c)

Next ==
  \/ \E t \in Tabs :
       \/ Load(t) \/ CommitToken(t) \/ ServeCheck(t) \/ CheckFails(t) \/ Checked(t)
       \/ \E f \in Forms : SubmitForm(t, f)
       \/ FormAnswered(t) \/ FormFails(t)
       \/ LogOut(t) \/ SocketRefused(t)
  \/ /\ \/ \E c \in Clients : Serve(c) \/ QueryFails(c)
        \/ \E c \in Clients \ Tabs : Elsewhere(c)
        \/ SeedDemo \/ Expire
     /\ UNCHANGED <<tabs, loads, typed, last, cut>>

Spec == Init /\ [][Next]_vars

-----------------------------------------------------------------------------
(***************************************************************************)
(* Properties.                                                             *)
(***************************************************************************)
\* Every variable has its type.
TypeOK ==
  /\ users \in SUBSET Users
  /\ step \in [Clients -> {"idle", "lookup", "create", "compare", "answered"}]
  /\ form \in [Clients -> Forms]
  /\ found \in [Clients -> SUBSET Users]
  /\ status \in [Clients -> {"none", "created", "ok", "conflict", "unauthorized", "error"}]
  /\ issuedIn \in [Clients -> 0..MaxExpiries]
  /\ era \in 0..MaxExpiries
  /\ {requests, failures, loads} \subseteq Nat
  /\ storage \in Tokens \cup {NoToken}
  /\ token \in [Tabs -> Tokens \cup {NoToken}]
  /\ user \in [Tabs -> Emails \cup {NoUser}]
  /\ loading \in [Tabs -> BOOLEAN]
  /\ effect \in [Tabs -> Tokens \cup {NoToken}]
  /\ check \in [Tabs -> [state : {"none", "sent", "ok", "refused", "failed"},
                         owner : Emails \cup {NoUser}]]
  /\ busy \in [Tabs -> BOOLEAN]
  /\ typed \in SUBSET Emails
  /\ last \in Tabs /\ cut \in BOOLEAN

\* Registrations that race, in any spelling, with each other, with a seeding backend
\* and with queries that fail after their commit, are those of a directory: one
\* account per email, whose password never changes.
D == INSTANCE Directory WITH
       entries <- [e \in Emails |-> {u.password : u \in {v \in users : v.email = e}}]
AccountsAreADirectory == D!Spec

\* A browser holds a token only for an account whose password was typed in it, and
\* shows no other account, whatever the storage, the races and the other clients do.
OnlyTheOwner ==
  \A t \in Tabs : /\ \A k \in {token[t], effect[t], storage} \ {NoToken} : k.email \in typed
                  /\ user[t] \in typed \cup {NoUser}

Quiet(t) == effect[t] = token[t] /\ check[t] = NoCheck

\* Once the checks are answered the account shown is the one the token is for: a
\* check of a former token, answered late, does not show through.
ShowsTokensOwner ==
  \A t \in Tabs : Quiet(t) /\ user[t] # NoUser /\ token[t] # NoToken => user[t] = token[t].email

\* Loading the page again, in any tab, resumes the session of the tab in which the user
\* signed in or out last, whatever the other tabs still hold.  The one exception: a tab
\* whose check failed or whose socket was refused since then, be its token a former
\* one, has removed that session; then a reload resumes none, never a former one.
ReloadResumesLast == storage = token[last] \/ (cut /\ storage = NoToken)

\* "Restoring session..." never stays for good: while it is shown a check is under way
\* whose answer ends it, or an effect is about to run that starts one or ends it.
LoadingHasACause == \A t \in Tabs : loading[t] => check[t] # NoCheck \/ effect[t] # token[t]

(***************************************************************************)
(* A claim of the documentation, refuted by a run.                         *)
(***************************************************************************)
\* "An expired or forged token is treated differently from a network drop": a tab
\* gives up a token the backend accepts only when its user signs out.
OnlyBadTokensSignOut ==
  [][\A t \in Tabs : token[t] # NoToken /\ token'[t] = NoToken =>
       LogOut(t) \/ ~ Accepts(token[t])]_vars
=============================================================================
