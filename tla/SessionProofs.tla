--------------------------- MODULE SessionProofs ---------------------------
(***************************************************************************)
(* Theorems about the accounts and the session of a browser, for any       *)
(* clients, tabs, emails, passwords, demo accounts and bounds.             *)
(***************************************************************************)
EXTENDS Session, TLAPS

\* The form a client has before its first request, and after an answer, is a form.
LEMMA NoFormType == NoForm \in Forms
<1>1. PICK e \in Spellings, p \in Passwords : TRUE
  BY FormsAssumption
<1>2. [kind |-> "login", email |-> e, password |-> p] \in Forms
  BY DEF Forms
<1> QED BY <1>2 DEF NoForm

\* Tokens issued now, and the rows they are issued for, are of the right type.
LEMMA RowTypes ==
  ASSUME NEW f \in Forms
  PROVE  /\ Lower[f.email] \in Emails
         /\ Inserted(f.email, f.password) \in Users
  BY LowerAssumption DEF Forms, Users, Inserted

\* So is the row of the demo account.
LEMMA SeedTypes ==
  ASSUME NEW s \in Seed
  PROVE  Inserted(s.email, s.password) \in Users
  BY SeedAssumption, LowerAssumption DEF Users, Inserted

(***************************************************************************)
(* Type correctness.                                                       *)
(***************************************************************************)
\* The types of the accounts, and of the tabs.
AccountsType ==
  /\ users \in SUBSET Users
  /\ step \in [Clients -> {"idle", "lookup", "create", "compare", "answered"}]
  /\ form \in [Clients -> Forms]
  /\ found \in [Clients -> SUBSET Users]
  /\ status \in [Clients -> {"none", "created", "ok", "conflict", "unauthorized", "error"}]
  /\ issuedIn \in [Clients -> 0..MaxExpiries]
  /\ era \in 0..MaxExpiries
  /\ requests \in Nat /\ failures \in Nat
TabsType ==
  /\ loads \in Nat
  /\ storage \in Tokens \cup {NoToken}
  /\ token \in [Tabs -> Tokens \cup {NoToken}]
  /\ user \in [Tabs -> Emails \cup {NoUser}]
  /\ loading \in [Tabs -> BOOLEAN]
  /\ effect \in [Tabs -> Tokens \cup {NoToken}]
  /\ check \in [Tabs -> [state : {"none", "sent", "ok", "refused", "failed"},
                         owner : Emails \cup {NoUser}]]
  /\ busy \in [Tabs -> BOOLEAN]
  /\ typed \in SUBSET Emails
  /\ last \in Tabs /\ cut \in BOOLEAN

\* Together they are the type invariant.
LEMMA TypeParts == TypeOK <=> AccountsType /\ TabsType
  BY DEF TypeOK, AccountsType, TabsType

\* The steps of the backend keep the types of the accounts.
LEMMA BackendType ==
  ASSUME AccountsType,
         \/ \E c \in Clients : \/ Serve(c) \/ QueryFails(c) \/ Take(c)
                               \/ \E f \in Forms : Submit(c, f)
         \/ SeedDemo \/ Expire
  PROVE  AccountsType'
<1>1. ASSUME NEW c \in Clients, LookUp(c) PROVE AccountsType'
  BY <1>1 DEF AccountsType, LookUp, Answer, Account
<1>2. ASSUME NEW c \in Clients, Create(c) PROVE AccountsType'
  <2>1. Inserted(form[c].email, form[c].password) \in Users
    BY RowTypes DEF AccountsType
  <2> QED BY <1>2, <2>1 DEF AccountsType, Create, Answer
<1>3. ASSUME NEW c \in Clients, Compare(c) PROVE AccountsType'
  BY <1>3 DEF AccountsType, Compare, Answer
<1>4. ASSUME NEW c \in Clients, QueryFails(c) PROVE AccountsType'
  <2>1. Inserted(form[c].email, form[c].password) \in Users
    BY RowTypes DEF AccountsType
  <2> QED BY <1>4, <2>1 DEF AccountsType, QueryFails, Answer
<1>5. ASSUME NEW c \in Clients, Take(c) PROVE AccountsType'
  BY <1>5, NoFormType, BoundsAssumption DEF AccountsType, Take
<1>6. ASSUME NEW c \in Clients, NEW f \in Forms, Submit(c, f) PROVE AccountsType'
  BY <1>6 DEF AccountsType, Submit
<1>7. CASE SeedDemo
  BY <1>7, SeedTypes DEF AccountsType, SeedDemo, request
<1>8. CASE Expire
  BY <1>8, BoundsAssumption DEF AccountsType, Expire, request
<1> QED BY <1>1, <1>2, <1>3, <1>4, <1>5, <1>6, <1>7, <1>8 DEF Serve

\* The change of an answer that signs in.
SignIn(t) ==
  /\ status[t] \in {"created", "ok"}
  /\ storage' \in Issued(t)
  /\ token' = [token EXCEPT ![t] = storage']
  /\ user' = [user EXCEPT ![t] = Lower[form[t].email]]
  /\ typed' = IF \E u \in users : u.email = Lower[form[t].email] /\ u.password = form[t].password
              THEN typed \cup {Lower[form[t].email]} ELSE typed
  /\ last' = t /\ cut' = FALSE

\* An answer to the form signs in, or changes nothing but the form.
LEMMA FormCases ==
  ASSUME NEW t \in Tabs, FormAnswered(t)
  PROVE  /\ busy' = [busy EXCEPT ![t] = FALSE]
         /\ UNCHANGED <<loading, effect, check, loads>>
         /\ SignIn(t) \/ UNCHANGED <<storage, token, user, typed, last, cut>>
  BY DEF FormAnswered, SignIn

\* The initial states are well typed.
LEMMA InitType == Init => TypeOK
<1> SUFFICES ASSUME Init PROVE AccountsType /\ TabsType
  BY TypeParts
<1>1. AccountsType
  BY NoFormType, BoundsAssumption DEF Init, AccountsInit, AccountsType
<1>2. TabsType
  BY DEF Init, TabsType, NoCheck
<1> QED BY <1>1, <1>2

\* Every step keeps the types.
LEMMA NextType == TypeOK /\ [Next]_vars => TypeOK'
<1> SUFFICES ASSUME AccountsType, TabsType, [Next]_vars
             PROVE  AccountsType' /\ TabsType'
  BY TypeParts, PTL
<1> USE DEF TabsType
<1>1. ASSUME NEW t \in Tabs, Load(t) PROVE AccountsType' /\ TabsType'
  <2>1. AccountsType'
    BY <1>1 DEF Load, accounts, request, AccountsType
  <2>2. TabsType'
    BY <1>1 DEF Load, Sent, NoCheck
  <2> QED BY <2>1, <2>2
<1>2. ASSUME NEW t \in Tabs, CommitToken(t) PROVE AccountsType' /\ TabsType'
  <2>1. AccountsType'
    BY <1>2 DEF CommitToken, accounts, request, AccountsType
  <2>2. TabsType'
    BY <1>2 DEF CommitToken, Sent, NoCheck
  <2> QED BY <2>1, <2>2
<1>3. ASSUME NEW t \in Tabs, ServeCheck(t) PROVE AccountsType' /\ TabsType'
  <2>1. AccountsType'
    BY <1>3 DEF ServeCheck, accounts, request, AccountsType
  <2>2. Accepts(effect[t]) => effect[t].email \in Emails
    BY DEF Accepts, AccountsType, Users
  <2>3. TabsType'
    BY <1>3, <2>2 DEF ServeCheck
  <2> QED BY <2>1, <2>3
<1>4. ASSUME NEW t \in Tabs, CheckFails(t) PROVE AccountsType' /\ TabsType'
  <2>1. AccountsType'
    BY <1>4 DEF CheckFails, request, AccountsType
  <2>2. TabsType'
    BY <1>4 DEF CheckFails
  <2> QED BY <2>1, <2>2
<1>5. ASSUME NEW t \in Tabs, Checked(t) PROVE AccountsType' /\ TabsType'
  <2>1. AccountsType'
    BY <1>5 DEF Checked, accounts, request, AccountsType
  <2>2. TabsType'
    BY <1>5 DEF Checked, GiveUp, SignOut, NoCheck
  <2> QED BY <2>1, <2>2
<1>6. ASSUME NEW t \in Tabs, NEW f \in Forms, SubmitForm(t, f)
      PROVE  AccountsType' /\ TabsType'
  <2>1. AccountsType'
    BY <1>6, BackendType, TabsAssumption DEF SubmitForm
  <2>2. TabsType'
    BY <1>6 DEF SubmitForm
  <2> QED BY <2>1, <2>2
<1>7. ASSUME NEW t \in Tabs, FormAnswered(t) PROVE AccountsType' /\ TabsType'
  <2>1. AccountsType'
    BY <1>7, BackendType, TabsAssumption DEF FormAnswered
  <2>2. Issued(t) \subseteq Tokens /\ Lower[form[t].email] \in Emails
    BY RowTypes, TabsAssumption DEF AccountsType, Issued
  <2>3. CASE SignIn(t)
    BY <1>7, <2>1, <2>2, <2>3, FormCases DEF SignIn
  <2>4. CASE UNCHANGED <<storage, token, user, typed, last, cut>>
    BY <1>7, <2>1, <2>4, FormCases
  <2> QED BY <1>7, <2>3, <2>4, FormCases
<1>8. ASSUME NEW t \in Tabs, FormFails(t) PROVE AccountsType' /\ TabsType'
  <2>1. AccountsType'
    BY <1>8 DEF FormFails, request, AccountsType
  <2>2. TabsType'
    BY <1>8 DEF FormFails
  <2> QED BY <2>1, <2>2
<1>9. ASSUME NEW t \in Tabs, LogOut(t) PROVE AccountsType' /\ TabsType'
  <2>1. AccountsType'
    BY <1>9 DEF LogOut, accounts, request, AccountsType
  <2>2. TabsType'
    BY <1>9 DEF LogOut, SignOut, NoCheck
  <2> QED BY <2>1, <2>2
<1>10. ASSUME NEW t \in Tabs, SocketRefused(t) PROVE AccountsType' /\ TabsType'
  <2>1. AccountsType'
    BY <1>10 DEF SocketRefused, accounts, request, AccountsType
  <2>2. TabsType'
    BY <1>10 DEF SocketRefused, GiveUp, SignOut
  <2> QED BY <2>1, <2>2
<1>11. ASSUME \/ \E c \in Clients : Serve(c) \/ QueryFails(c)
              \/ \E c \in Clients \ Tabs : Elsewhere(c)
              \/ SeedDemo \/ Expire,
              UNCHANGED <<tabs, loads, typed, last, cut>>
       PROVE  AccountsType' /\ TabsType'
  <2>1. AccountsType'
    BY <1>11, BackendType DEF Elsewhere
  <2>2. TabsType'
    BY <1>11 DEF tabs
  <2> QED BY <2>1, <2>2
<1>12. CASE UNCHANGED vars
  BY <1>12 DEF vars, accounts, request, tabs, AccountsType
<1> QED
  BY <1>1, <1>2, <1>3, <1>4, <1>5, <1>6, <1>7, <1>8, <1>9, <1>10, <1>11, <1>12 DEF Next

\* Every reachable state of the accounts and the tabs is well typed: emails are stored
\* in lower case, whatever is typed.
THEOREM TypeCorrect == Spec => []TypeOK
BY InitType, NextType, PTL DEF Spec

(***************************************************************************)
(* The accounts implement the directory.                                   *)
(***************************************************************************)
\* What the directory says of one email.
Entry(us, e) == {u.password : u \in {v \in us : v.email = e}}
Entries(us) == [e \in Emails |-> Entry(us, e)]

\* A row inserted under the unique constraint is a creation in the directory.
LEMMA InsertCreates ==
  ASSUME users \in SUBSET Users, NEW u \in Users, Unique(u), users' = users \cup {u}
  PROVE  D!Next
<1>1. u.email \in Emails /\ u.password \in Passwords
  BY DEF Users
<1>2. Entry(users, u.email) = {}
  BY DEF Entry, Unique
<1>3. ASSUME NEW e \in Emails
      PROVE  Entry(users', e) = IF e = u.email THEN {u.password} ELSE Entry(users, e)
  BY <1>2 DEF Entry
<1>4. Entries(users') = [Entries(users) EXCEPT ![u.email] = {u.password}]
  BY <1>1, <1>3 DEF Entries
<1> QED
  BY <1>1, <1>2, <1>4 DEF D!Next, D!Create, Entry, Entries

\* Every other step leaves the table alone.
LEMMA DirectoryStep ==
  ASSUME TypeOK, [Next]_vars
  PROVE  D!Next \/ users' = users
<1>1. AccountsType
  BY TypeParts
<1>2. ASSUME NEW t \in Tabs,
             \/ Load(t) \/ CommitToken(t) \/ ServeCheck(t) \/ CheckFails(t) \/ Checked(t)
             \/ \E f \in Forms : SubmitForm(t, f)
             \/ FormAnswered(t) \/ FormFails(t)
             \/ LogOut(t) \/ SocketRefused(t)
      PROVE  users' = users
  BY <1>2 DEF Load, CommitToken, ServeCheck, CheckFails, Checked, SubmitForm, Submit,
              FormAnswered, Take, FormFails, LogOut, SocketRefused, accounts
<1>3. ASSUME NEW c \in Clients, Create(c) \/ QueryFails(c)
      PROVE  D!Next \/ users' = users
  <2>1. Inserted(form[c].email, form[c].password) \in Users
    BY <1>1, RowTypes DEF AccountsType
  <2> QED BY <1>1, <1>3, <2>1, InsertCreates DEF Create, QueryFails, AccountsType
<1>4. ASSUME NEW c \in Clients,
             LookUp(c) \/ Compare(c) \/ Take(c) \/ \E f \in Forms : Submit(c, f)
      PROVE  users' = users
  BY <1>4 DEF LookUp, Compare, Take, Submit
<1>5. CASE SeedDemo
  BY <1>1, <1>5, SeedTypes, InsertCreates DEF SeedDemo, AccountsType
<1>6. CASE Expire \/ UNCHANGED vars
  BY <1>6 DEF Expire, vars, accounts
<1> QED BY <1>2, <1>3, <1>4, <1>5, <1>6 DEF Next, Serve, Elsewhere

\* Registrations that race in any spelling, seeding backends and queries that fail
\* after their commit are those of a directory: one account per email, created once,
\* whose password never changes.
THEOREM ImplementsDirectory == Spec => AccountsAreADirectory
<1>1. Init => D!Init
  BY DEF Init, AccountsInit, D!Init
<1>2. TypeOK /\ [Next]_vars =>
        [D!Next]_([e \in Emails |-> {u.password : u \in {v \in users : v.email = e}}])
  BY DirectoryStep
<1> QED BY <1>1, <1>2, TypeCorrect, PTL DEF Spec, AccountsAreADirectory, D!Spec
(***************************************************************************)
(* The safety of the session.  An answer "created" or "ok" is backed by an *)
(* account with the password of the form; a check belongs to the effect's  *)
(* token; loading ends with the check.                                     *)
(***************************************************************************)
Matches(c, u) == u.email = Lower[form[c].email] /\ u.password = form[c].password
Granted ==
  \A c \in Clients :
    /\ step[c] = "compare" => found[c] \subseteq Account(form[c].email)
    /\ step[c] = "answered" /\ status[c] \in {"created", "ok"} => \E u \in users : Matches(c, u)

\* A step of the accounts keeps every answer backed: accounts are never removed.
LEMMA GrantedKept ==
  ASSUME TypeOK, Granted, [Next]_vars
  PROVE  Granted'
<1> USE DEF Granted, Matches, Account
<1>1. AccountsType
  BY TypeParts
<1>2. ASSUME UNCHANGED request, users \subseteq users' PROVE Granted'
  BY <1>2 DEF request
<1>3. ASSUME NEW c \in Clients, LookUp(c) PROVE Granted'
  BY <1>1, <1>3 DEF LookUp, Answer, AccountsType
<1>4. ASSUME NEW c \in Clients, Create(c) PROVE Granted'
  BY <1>1, <1>4 DEF Create, Answer, Inserted, AccountsType
<1>5. ASSUME NEW c \in Clients, Compare(c) PROVE Granted'
  BY <1>1, <1>5 DEF Compare, Answer, AccountsType
<1>6. ASSUME NEW c \in Clients, QueryFails(c) PROVE Granted'
  BY <1>1, <1>6 DEF QueryFails, Answer, AccountsType
<1>7. ASSUME NEW c \in Clients, Take(c) PROVE Granted'
  BY <1>1, <1>7 DEF Take, AccountsType
<1>8. ASSUME NEW c \in Clients, NEW f \in Forms, Submit(c, f) PROVE Granted'
  BY <1>1, <1>8 DEF Submit, AccountsType
<1>9. CASE SeedDemo \/ Expire \/ UNCHANGED vars
  BY <1>2, <1>9 DEF SeedDemo, Expire, vars, accounts
<1>10. ASSUME NEW t \in Tabs,
              \/ Load(t) \/ CommitToken(t) \/ ServeCheck(t) \/ CheckFails(t) \/ Checked(t)
              \/ FormFails(t) \/ LogOut(t) \/ SocketRefused(t)
       PROVE  Granted'
  BY <1>2, <1>10 DEF Load, CommitToken, ServeCheck, CheckFails, Checked, FormFails, LogOut,
                     SocketRefused, accounts
<1>11. ASSUME NEW t \in Tabs, FormAnswered(t) \/ \E f \in Forms : SubmitForm(t, f)
       PROVE  Granted'
  BY <1>7, <1>8, <1>11, TabsAssumption DEF FormAnswered, SubmitForm
<1> QED
  BY <1>3, <1>4, <1>5, <1>6, <1>7, <1>8, <1>9, <1>10, <1>11 DEF Next, Serve, Elsewhere

Checks(t) == /\ check[t] # NoCheck => effect[t] # NoToken
             /\ check[t].state = "ok" => check[t].owner = effect[t].email
             /\ loading[t] => check[t] # NoCheck
Owned(t) == /\ token[t] # NoToken => token[t].email \in typed
            /\ effect[t] # NoToken => effect[t].email \in typed
            /\ user[t] \in typed \cup {NoUser}
Shows(t) == Quiet(t) /\ user[t] # NoUser /\ token[t] # NoToken => user[t] = token[t].email

SessionInv == /\ \A t \in Tabs : Checks(t) /\ Owned(t) /\ Shows(t)
              /\ storage # NoToken => storage.email \in typed
              /\ ReloadResumesLast

\* No request was answered and no tab has a token at first.
LEMMA InitSession == Init => Granted /\ SessionInv
  BY NoFormType DEF Init, AccountsInit, Granted, SessionInv, Checks, Owned, Shows,
                    ReloadResumesLast, NoCheck

\* Every step keeps the invariant of the session.
LEMMA SessionStep ==
  ASSUME TypeOK, Granted, SessionInv, [Next]_vars
  PROVE  SessionInv'
<1>1. AccountsType /\ TabsType
  BY TypeParts
<1> USE DEF SessionInv, Checks, Owned, Shows, ReloadResumesLast, Quiet, TabsType
<1>2. ASSUME NEW t \in Tabs, Load(t) PROVE SessionInv'
  BY <1>1, <1>2 DEF Load, Sent, NoCheck
<1>3. ASSUME NEW t \in Tabs, CommitToken(t) PROVE SessionInv'
  BY <1>1, <1>3 DEF CommitToken, Sent, NoCheck
<1>4. ASSUME NEW t \in Tabs, ServeCheck(t) PROVE SessionInv'
  BY <1>1, <1>4 DEF ServeCheck, Sent, NoCheck
<1>5. ASSUME NEW t \in Tabs, CheckFails(t) PROVE SessionInv'
  BY <1>1, <1>5 DEF CheckFails, Sent, NoCheck
<1>6. ASSUME NEW t \in Tabs, Checked(t) PROVE SessionInv'
  BY <1>1, <1>6 DEF Checked, GiveUp, SignOut, NoCheck
<1>7. ASSUME NEW t \in Tabs, FormAnswered(t) PROVE SessionInv'
  <2>1. CASE SignIn(t)
    <3>1. Lower[form[t].email] \in typed'
      BY <1>7, <2>1, TabsAssumption DEF SignIn, Granted, Matches, FormAnswered, Take
    <3>2. typed \subseteq typed'
      BY <2>1 DEF SignIn
    <3>3. ASSUME NEW u \in Tabs PROVE (Checks(u) /\ Owned(u) /\ Shows(u))'
      <4>1. Checks(u)'
        BY <1>7, FormCases
      <4>2. CASE u = t
        <5>1. /\ token'[t] \in Issued(t) /\ token'[t].email = Lower[form[t].email]
              /\ user'[t] = Lower[form[t].email]
          BY <1>1, <2>1 DEF SignIn, Issued
        <5> QED BY <1>7, <3>1, <3>2, <4>1, <4>2, <5>1, FormCases
      <4>3. CASE u # t
        <5>1. token'[u] = token[u] /\ user'[u] = user[u]
          BY <1>1, <2>1, <4>3 DEF SignIn
        <5> QED BY <1>7, <3>2, <4>1, <4>3, <5>1, FormCases
      <4> QED BY <4>2, <4>3
    <3>4. storage' = token'[t] /\ last' = t /\ storage'.email \in typed'
      BY <1>1, <2>1, <3>1 DEF SignIn, Issued
    <3> QED BY <3>3, <3>4
  <2>2. CASE UNCHANGED <<storage, token, user, typed, last, cut>>
    BY <1>1, <1>7, <2>2, FormCases
  <2> QED BY <1>7, <2>1, <2>2, FormCases
<1>8. ASSUME NEW t \in Tabs, LogOut(t) PROVE SessionInv'
  BY <1>1, <1>8 DEF LogOut, SignOut, Dashboard, NoCheck
<1>9. ASSUME NEW t \in Tabs, SocketRefused(t) PROVE SessionInv'
  BY <1>1, <1>9 DEF SocketRefused, GiveUp, SignOut, Dashboard
<1>10. ASSUME UNCHANGED <<storage, token, user, loading, effect, check, typed, last, cut>>
       PROVE  SessionInv'
  BY <1>10
<1> QED
  BY <1>2, <1>3, <1>4, <1>5, <1>6, <1>7, <1>8, <1>9, <1>10
  DEF Next, SubmitForm, FormFails, tabs, vars

\* The invariant the theorems below follow from.
LEMMA SessionInvariant == Spec => [](TypeOK /\ Granted /\ SessionInv)
<1>1. Init => TypeOK /\ Granted /\ SessionInv
  BY InitType, InitSession
<1>2. (TypeOK /\ Granted /\ SessionInv) /\ [Next]_vars => (TypeOK /\ Granted /\ SessionInv)'
  BY NextType, GrantedKept, SessionStep
<1> QED BY <1>1, <1>2, PTL DEF Spec

\* A browser holds tokens only of accounts whose password was typed in it, and shows
\* no other account, whatever the other clients, the storage and the races do.
THEOREM OnlyTheOwnerSignsIn == Spec => []OnlyTheOwner
<1>1. SessionInv => OnlyTheOwner
  BY DEF SessionInv, Owned, OnlyTheOwner
<1> QED BY <1>1, SessionInvariant, PTL

\* A check of a former token never shows through once the checks are answered.
THEOREM TheTokensOwnerIsShown == Spec => []ShowsTokensOwner
<1>1. SessionInv => ShowsTokensOwner
  BY DEF SessionInv, Shows, ShowsTokensOwner
<1> QED BY <1>1, SessionInvariant, PTL

\* Loading a page resumes the session of the tab in which the user signed in or out
\* last, or none when a tab has given up a token since; never a former one.
THEOREM ReloadingResumes == Spec => []ReloadResumesLast
<1>1. SessionInv => ReloadResumesLast
  BY DEF SessionInv
<1> QED BY <1>1, SessionInvariant, PTL

\* "Restoring session..." is shown only while a check is under way.
THEOREM LoadingIsCaused == Spec => []LoadingHasACause
<1>1. SessionInv => LoadingHasACause
  BY DEF SessionInv, Checks, LoadingHasACause
<1> QED BY <1>1, SessionInvariant, PTL
=============================================================================
