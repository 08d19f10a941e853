------------------------------ MODULE Accounts ------------------------------
(***************************************************************************)
(* register, login, verify and the seeding of AuthService over the users   *)
(* table.  Requests of several clients run concurrently: every query of    *)
(* one is a step of its own, and between the look-up of an email and the   *)
(* insert the others go on.  A hash is its password: bcrypt compares as if *)
(* it were.  The queries fold the case of the emails they are given.       *)
(***************************************************************************)
EXTENDS Naturals

CONSTANTS
  Clients,      \* whoever sends requests, one at a time
  Spellings,    \* emails as typed
  Emails,       \* emails in lower case
  Lower,        \* toLowerCase, a function from Spellings to Emails
  Passwords,
  Seed,         \* the demo account of the configuration, or none
  MaxRequests,  \* bound: requests to register or to log in
  MaxFailures,  \* bound: queries and connections that fail
  MaxExpiries   \* bound: times all tokens issued so far become invalid

Forms == [kind : {"register", "login"}, email : Spellings, password : Passwords]
Users == [email : Emails, password : Passwords]

ASSUME FormsAssumption == Spellings # {} /\ Passwords # {}
ASSUME LowerAssumption == Lower \in [Spellings -> Emails]
ASSUME SeedAssumption == Seed \subseteq [email : Spellings, password : Passwords]
ASSUME BoundsAssumption == {MaxRequests, MaxFailures, MaxExpiries} \subseteq Nat

VARIABLES
  users,      \* rows of the users table
  step,       \* where each client's request is
  form,       \* what it asks
  found,      \* login: the row findByEmail returned, before the comparison
  status,     \* its answer
  issuedIn,   \* the era the token of the answer was signed in
  era,        \* tokens of earlier eras have expired, or their secret was replaced
  requests, failures   \* what is used of the bounds

request  == <<step, form, found, status, issuedIn>>
accounts == <<users, request, era, requests, failures>>

NoForm == CHOOSE f \in Forms : TRUE

AccountsInit ==
  /\ users = {}
  /\ step = [c \in Clients |-> "idle"]
  /\ form = [c \in Clients |-> NoForm]
  /\ found = [c \in Clients |-> {}]
  /\ status = [c \in Clients |-> "none"]
  /\ issuedIn = [c \in Clients |-> 0]
  /\ era = 0 /\ requests = 0 /\ failures = 0

\* findByEmail.
Account(email) == {u \in users : u.email = Lower[email]}

\* Bug: create keeps the email as typed.
InsertedRaw(email, password) == [email |-> email, password |-> password]

\* The row of an INSERT.
Inserted(email, password) == [email |-> Lower[email], password |-> password]

\* UNIQUE on email.
Unique(u) == \A v \in users : v.email # u.email

Answer(c, answer) ==
  /\ step' = [step EXCEPT ![c] = "answered"]
  /\ status' = [status EXCEPT ![c] = answer]
  /\ issuedIn' = [issuedIn EXCEPT ![c] = era]

Submit(c, f) ==
  /\ step[c] = "idle"
  /\ requests < MaxRequests
  /\ requests' = requests + 1
  /\ step' = [step EXCEPT ![c] = "lookup"]
  /\ form' = [form EXCEPT ![c] = f]
  /\ UNCHANGED <<users, found, status, issuedIn, era, failures>>

\* register up to its hash, login up to its comparison.
LookUp(c) ==
  /\ step[c] = "lookup"
  /\ LET hit == Account(form[c].email) IN
       \/ /\ form[c].kind = "register" /\ hit # {}
          /\ Answer(c, "conflict")
          /\ UNCHANGED found
       \/ /\ form[c].kind = "register" /\ hit = {}
          /\ step' = [step EXCEPT ![c] = "create"]
          /\ UNCHANGED <<found, status, issuedIn>>
       \/ /\ form[c].kind = "login"
          /\ found' = [found EXCEPT ![c] = hit]
          /\ step' = [step EXCEPT ![c] = "compare"]
          /\ UNCHANGED <<status, issuedIn>>
  /\ UNCHANGED <<users, form, era, requests, failures>>

\* users.create, then issue; a duplicate email is an error nobody catches.
Create(c) ==
  /\ step[c] = "create"
  /\ LET u == Inserted(form[c].email, form[c].password) IN
       \/ Unique(u)   /\ users' = users \cup {u} /\ Answer(c, "created")
       \/ ~ Unique(u) /\ UNCHANGED users         /\ Answer(c, "error")
  /\ UNCHANGED <<form, found, era, requests, failures>>

\* Bug: an account is enough, the result of the comparison is not used.
CompareLoosely(c) ==
  /\ step[c] = "compare"
  /\ Answer(c, IF found[c] # {} THEN "ok" ELSE "unauthorized")
  /\ UNCHANGED <<users, form, found, era, requests, failures>>

\* bcrypt.compare, with the row of the look-up or the dummy hash, then issue.
Compare(c) ==
  /\ step[c] = "compare"
  /\ Answer(c, IF \E u \in found[c] : u.password = form[c].password
               THEN "ok" ELSE "unauthorized")
  /\ UNCHANGED <<users, form, found, era, requests, failures>>

\* A query fails, the insert perhaps after its commit.
QueryFails(c) ==
  /\ step[c] \in {"lookup", "create"}
  /\ failures < MaxFailures
  /\ failures' = failures + 1
  /\ Answer(c, "error")
  /\ \/ UNCHANGED users
     \/ LET u == Inserted(form[c].email, form[c].password) IN
          step[c] = "create" /\ Unique(u) /\ users' = users \cup {u}
  /\ UNCHANGED <<form, found, era, requests>>

\* Bug: ON CONFLICT DO UPDATE.
SeedDemoOverwriting ==
  /\ \E s \in Seed : users' = {u \in users : u.email # Lower[s.email]}
                               \cup {Inserted(s.email, s.password)}
  /\ UNCHANGED <<request, era, requests, failures>>

\* createIfMissing, at the boot of a backend, while others may be serving.
SeedDemo ==
  /\ \E s \in Seed : /\ Unique(Inserted(s.email, s.password))
                     /\ users' = users \cup {Inserted(s.email, s.password)}
  /\ UNCHANGED <<request, era, requests, failures>>

\* Twelve hours pass, or the backend is redeployed with another secret.
Expire == /\ era < MaxExpiries
          /\ era' = era + 1
          /\ UNCHANGED <<users, request, requests, failures>>

\* The client takes the answer; nothing is left of the request.
Take(c) == /\ step[c] = "answered"
           /\ step'     = [step     EXCEPT ![c] = "idle"]
           /\ form'     = [form     EXCEPT ![c] = NoForm]
           /\ found'    = [found    EXCEPT ![c] = {}]
           /\ status'   = [status   EXCEPT ![c] = "none"]
           /\ issuedIn' = [issuedIn EXCEPT ![c] = 0]
           /\ UNCHANGED <<users, era, requests, failures>>

Serve(c) == LookUp(c) \/ Create(c) \/ Compare(c)

\* verify, then findById.
Accepts(token) == token.era = era /\ \E u \in users : u.email = token.email
=============================================================================
