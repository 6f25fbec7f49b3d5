------------------------------ MODULE Session -------------------------------
(***************************************************************************)
(* Sessions of the web panel: the Google callback and the interceptor of   *)
(* the API, and the browser tabs whose token store persists in one         *)
(* localStorage.  A tab reads it when a document loads and never again;    *)
(* signing in or out writes both, and no tab hears of another's writes.    *)
(*                                                                         *)
(* A tab shows a page of frontend/app/routes.ts.  "dash" is any page under *)
(* the layout: each shows what is its user's, and the account page has the *)
(* Logout button besides.  "landing" is /auth with a token in its address, *)
(* "login" is Google and the API's callback, "away" the home page, an      *)
(* error page or another site.                                             *)
(***************************************************************************)
EXTENDS AuthMessages, Naturals

CONSTANTS
    Known,      \* users who have a row already
    Tabs,
    Tokens,     \* tokens the API can issue (a bound)
    Expiring,   \* those of them that expire within the time we look at (a bound)
    Requests    \* requests that can be in flight at the same time (a bound)

VARIABLES
    users,      \* rows of the users table
    owner,      \* sub claim of each token, None before the token is issued
    expired,    \* tokens whose exp claim has passed
    stored,     \* accessToken in localStorage
    memory,     \* accessToken in the store of each tab's document
    page,       \* the page each tab shows
    going,      \* the navigation each tab's router has under way, or "stay"
    redirects,  \* how often loaders have redirected that navigation (history)
    address,    \* token in the /auth address that the Back button of the tab reaches
    callback,   \* the API's callback that each tab waits for
    left,       \* emails without a row, of callbacks that no tab waits for any more
    shown,      \* the user whose data the page shows, None while it loads or after an error
    requests    \* requests in flight

server   == <<users, owner, expired, left>>
router   == <<going, redirects>>
vars     == <<server, stored, memory, page, router, address, callback, shown, requests>>

Routes   == {"auth", "landing", "dash"}
Pages    == Routes \cup {"login", "away"}
Steps    == {"lookup", "create", "token"}

Callback == [email : Emails, step : Steps, id : UserIds \cup {None}]

\* A request of a tab's page; an orphan once that page is left: no page takes its
\* answer any more.
Request ==
    [tab : Tabs, orphan : BOOLEAN, token : Tokens \cup {None},
     answer : UserIds \cup {"unauthenticated", None}]

\* None is none of the values in whose place it stands.
ASSUME SessionAssumption ==
    /\ None \notin UserIds \cup Tokens \cup Callback \cup Request
    /\ None # "unauthenticated"
    /\ "unauthenticated" \notin UserIds

\* The users table has its unique indexes.
ASSUME KnownAssumption ==
    /\ Known \in SUBSET User
    /\ \A u, v \in Known : u.email = v.email \/ u.id = v.id => u = v

TypeOK ==
    /\ users \in SUBSET User
    /\ owner \in [Tokens -> UserIds \cup {None}]
    /\ expired \in SUBSET Tokens
    /\ stored \in Tokens \cup {None}
    /\ memory \in [Tabs -> Tokens \cup {None}]
    /\ page \in [Tabs -> Pages]
    /\ going \in [Tabs -> Routes \cup {"stay"}]
    /\ redirects \in [Tabs -> Nat]
    /\ address \in [Tabs -> Tokens \cup {None}]
    /\ callback \in [Tabs -> Callback \cup {None}]
    /\ left \in SUBSET Emails
    /\ shown \in [Tabs -> UserIds \cup {None}]
    /\ requests \in [Requests -> Request \cup {None}]

Init ==
    /\ users = Known
    /\ owner = [T \in Tokens |-> None]
    /\ expired = {}
    /\ stored = None
    /\ memory = [t \in Tabs |-> None]
    /\ page = [t \in Tabs |-> "away"]
    /\ going = [t \in Tabs |-> "stay"]
    /\ redirects = [t \in Tabs |-> 0]
    /\ address = [t \in Tabs |-> None]
    /\ callback = [t \in Tabs |-> None]
    /\ left = {}
    /\ shown = [t \in Tabs |-> None]
    /\ requests = [r \in Requests |-> None]

Valid(T) == T # None /\ T \notin expired

-----------------------------------------------------------------------------
\* Pages.

\* The router starts a navigation to route p, or has ended one ("stay").
Navigate(t, p) ==
    /\ going' = [going EXCEPT ![t] = p]
    /\ redirects' = [redirects EXCEPT ![t] = 0]

\* The loader that the router ran sends it on to route p.
SendOn(t, p) ==
    /\ going' = [going EXCEPT ![t] = p]
    /\ redirects' = [redirects EXCEPT ![t] = @ + 1]

\* Mutant: the query of the page that is left still takes its answer.
ShowSameClient(t, p) ==
    /\ page' = [page EXCEPT ![t] = p]
    /\ shown' = [shown EXCEPT ![t] = None]
    /\ UNCHANGED requests

\* The tab shows page p of the same document.  A query's client is replaced
\* with the page (root.tsx), so that the answers on their way reach no page.
Show(t, p) ==
    /\ page' = [page EXCEPT ![t] = p]
    /\ shown' = [shown EXCEPT ![t] = None]
    /\ requests' = [r \in Requests |->
           IF requests[r] # None /\ requests[r].tab = t
           THEN [requests[r] EXCEPT !.orphan = TRUE] ELSE requests[r]]

\* The tab shows page p of a new document, whose store is read from
\* localStorage.  What the old one had in flight is gone with it.
Document(t, p, T) ==
    /\ page' = [page EXCEPT ![t] = p]
    /\ memory' = [memory EXCEPT ![t] = T]
    /\ shown' = [shown EXCEPT ![t] = None]
    /\ requests' = [r \in Requests |->
           IF requests[r] # None /\ requests[r].tab = t THEN None ELSE requests[r]]

\* The effect of AuthPage: the token of the address signs the tab in.
SignIn(t) ==
    /\ page[t] = "landing" /\ going[t] = "stay"
    /\ memory' = [memory EXCEPT ![t] = address[t]]
    /\ stored' = address[t]
    /\ Navigate(t, "dash")
    /\ UNCHANGED <<server, page, address, callback, shown, requests>>

\* The emails that have no row of their own yet.
WithoutRow(emails) == {e \in emails : \A u \in users : u.email # e}

\* A document is loaded, from a link outside, an address typed in or a reload.
\* The layout's loader runs in the browser before its page is shown, and sends a
\* tab without a token to /auth, whose own loader does not run for a document.  A
\* callback that the tab leaves goes on, as it does not use the request's context,
\* and may yet make a row.
Load(t, p) ==
    /\ IF p = "dash" /\ stored = None
       THEN Document(t, "away", None) /\ Navigate(t, "auth")
       ELSE Document(t, p, stored) /\ Navigate(t, "stay")
    /\ callback' = [callback EXCEPT ![t] = None]
    /\ left' = IF page[t] = "login" /\ callback[t].step # "token"
               THEN WithoutRow(left \cup {callback[t].email}) ELSE left
    /\ UNCHANGED <<users, owner, expired, stored, address>>

\* The Back button reaches the address with the token, in the document that is
\* loaded or as a new one.
Back(t) ==
    /\ address[t] # None
    /\ page[t] # "login"
    /\ Navigate(t, "landing")
    /\ UNCHANGED <<server, stored, memory, page, address, callback, shown, requests>>

BackToDocument(t) ==
    /\ address[t] # None
    /\ Load(t, "landing")

\* Links in a document: to /auth from the home page, and under the layout to the
\* page that is shown, which runs the layout's loader.
Follow(t) ==
    /\ \/ page[t] = "away" /\ Navigate(t, "auth")
       \/ page[t] = "dash" /\ Navigate(t, "dash")
    /\ UNCHANGED <<server, stored, memory, page, address, callback, shown, requests>>

\* Links to pages without a loader to run: home from /auth, and under the layout
\* from one page to another.
Switch(t) ==
    /\ \/ page[t] \in {"auth", "landing"} /\ Show(t, "away")
       \/ page[t] = "dash" /\ Show(t, "dash")
    /\ Navigate(t, "stay")
    /\ UNCHANGED <<server, stored, memory, address, callback>>

\* Mutant: the layout's loader asks localStorage instead of the store.
RedirectStored(t, p) ==
    CASE p = "dash" /\ stored = None -> "auth"
      [] p \in {"auth", "landing"} /\ memory[t] # None -> "dash"
      [] OTHER -> p

\* The loader of the route that the router goes to: where it leads.  The layout
\* sends a tab without a token to /auth, which sends one with a token to /dash.
Redirect(t, p) ==
    CASE p = "dash" /\ memory[t] = None -> "auth"
      [] p \in {"auth", "landing"} /\ memory[t] # None -> "dash"
      [] OTHER -> p

\* The page that is shown stays mounted when it is navigated to, with its data and
\* with its query in the client it was mounted with.
StayMounted(t) ==
    /\ page[t] = "dash"
    /\ UNCHANGED <<page, shown, requests>>

\* The loader is done: the page is shown, or the redirect followed.  One to /dash
\* leads to the page that is shown, or to another page under the layout.
Arrive(t) ==
    /\ going[t] # "stay"
    /\ LET p == Redirect(t, going[t]) IN
          \/ /\ p = going[t]
             /\ Show(t, p) \/ (p = "dash" /\ StayMounted(t))
             /\ Navigate(t, "stay")
          \/ /\ p # going[t]
             /\ SendOn(t, p)
             /\ UNCHANGED <<page, shown, requests>>
    /\ UNCHANGED <<server, stored, memory, address, callback>>

\* serverLoader, by which the loader of /auth fetches the Google address that was
\* rendered when the panel was built, fails.
LoaderFails(t) ==
    /\ going[t] \in {"auth", "landing"}
    /\ Show(t, "away")
    /\ Navigate(t, "stay")
    /\ UNCHANGED <<server, stored, memory, address, callback>>

\* The account page's button, there with the user's data and with the error that
\* ends a first load, which can end at any time.
Logout(t) ==
    /\ page[t] = "dash"
    /\ memory' = [memory EXCEPT ![t] = None]
    /\ stored' = None
    /\ Navigate(t, "auth")
    /\ UNCHANGED <<server, page, address, callback, shown, requests>>

-----------------------------------------------------------------------------
\* The login.

\* The link to Google.  The user agrees, and Google sends the browser to the API.
Login(t) ==
    /\ page[t] \in {"auth", "landing"}
    /\ Document(t, "login", None)
    /\ Navigate(t, "stay")
    /\ \E e \in Emails :
          callback' = [callback EXCEPT ![t] = [email |-> e, step |-> "lookup", id |-> None]]
    /\ UNCHANGED <<server, stored, address>>

Lookup(t) ==
    /\ callback[t] # None /\ callback[t].step = "lookup"
    /\ \/ \E u \in users :
             /\ u.email = callback[t].email
             /\ callback' = [callback EXCEPT ![t].step = "token", ![t].id = u.id]
       \/ /\ \A u \in users : u.email # callback[t].email
          /\ callback' = [callback EXCEPT ![t].step = "create"]
    /\ UNCHANGED <<server, stored, memory, page, router, address, shown, requests>>

NewIds == {id \in UserIds : \A u \in users : u.id # id}

\* Mutant: the hook that makes an id is gone.
InsertWithoutId(e, id) ==
    /\ \A u \in users : u.email # e
    /\ users' = users \cup {[id |-> None, email |-> e]}
    /\ left' = left \ {e}

\* Mutant: the email index is not unique.
InsertAgain(e, id) ==
    /\ users' = users \cup {[id |-> id, email |-> e]}
    /\ left' = left \ {e}

\* The email index is unique: the insert fails if another callback was first.
Insert(e, id) ==
    /\ \A u \in users : u.email # e
    /\ users' = users \cup {[id |-> id, email |-> e]}
    /\ left' = left \ {e}

Create(t) ==
    /\ callback[t] # None /\ callback[t].step = "create"
    /\ NewIds # {}
    /\ LET id == CHOOSE id \in NewIds : TRUE IN
          /\ Insert(callback[t].email, id)
          /\ callback' = [callback EXCEPT ![t].step = "token", ![t].id = id]
    /\ UNCHANGED <<owner, expired, stored, memory, page, router, address, shown, requests>>

\* A callback that no tab waits for makes the row.  What else it does, or that it
\* fails, nobody sees.
CreateLate(e) ==
    /\ e \in left
    /\ NewIds # {}
    /\ Insert(e, CHOOSE id \in NewIds : TRUE)
    /\ UNCHANGED <<owner, expired, stored, memory, page, router, address, callback, shown,
                   requests>>

\* The redirect to /auth with the token loads the document, if the tab still waits.
Issue(t) ==
    /\ callback[t] # None /\ callback[t].step = "token"
    /\ \E T \in Tokens : owner[T] = None
    /\ LET T == CHOOSE T \in Tokens : owner[T] = None IN
          /\ owner' = [owner EXCEPT ![T] = callback[t].id]
          /\ address' = [address EXCEPT ![t] = T]
    /\ Document(t, "landing", stored)
    /\ callback' = [callback EXCEPT ![t] = None]
    /\ UNCHANGED <<users, expired, left, stored, router>>

\* Google does not vouch for the email, a statement fails, the insert meets the
\* index, or an answer is lost: the tab is left with an error.
CallbackFails(t) ==
    /\ callback[t] # None
    /\ callback' = [callback EXCEPT ![t] = None]
    /\ page' = [page EXCEPT ![t] = "away"]
    /\ UNCHANGED <<server, stored, memory, router, address, shown, requests>>

-----------------------------------------------------------------------------
\* Requests.

\* Mutant: the interceptor takes the token from localStorage.
SendStored(t, r) ==
    /\ page[t] = "dash"
    /\ requests[r] = None
    /\ requests' = [requests EXCEPT ![r] =
           [tab |-> t, orphan |-> FALSE, token |-> stored, answer |-> None]]
    /\ UNCHANGED <<server, stored, memory, page, router, address, callback, shown>>

\* A page under the layout asks the API: when it mounts, when it is focused,
\* again after a failure.  The interceptor adds the token there is, if any.
Send(t, r) ==
    /\ page[t] = "dash"
    /\ requests[r] = None
    /\ requests' = [requests EXCEPT ![r] =
           [tab |-> t, orphan |-> FALSE, token |-> memory[t], answer |-> None]]
    /\ UNCHANGED <<server, stored, memory, page, router, address, callback, shown>>

\* NewAuthInterceptor admits a token that verifies and has not expired, and the
\* handler acts for its sub.
Handle(r) ==
    /\ requests[r] # None /\ requests[r].answer = None
    /\ requests' = [requests EXCEPT ![r].answer =
           IF Valid(requests[r].token) THEN owner[requests[r].token] ELSE "unauthenticated"]
    /\ UNCHANGED <<server, stored, memory, page, router, address, callback, shown>>

\* The page has its data, from WhoAmI.
Receive(r) ==
    /\ requests[r] # None /\ requests[r].answer \in UserIds
    /\ shown' = IF requests[r].orphan THEN shown
                ELSE [shown EXCEPT ![requests[r].tab] = requests[r].answer]
    /\ requests' = [requests EXCEPT ![r] = None]
    /\ UNCHANGED <<server, stored, memory, page, router, address, callback>>

\* The interceptor of the tab signs out on Unauthenticated, whichever token the
\* request had, and on no other error.
Unauthenticated(r) ==
    /\ requests[r] # None /\ requests[r].answer = "unauthenticated"
    /\ memory' = [memory EXCEPT ![requests[r].tab] = None]
    /\ stored' = None
    /\ requests' = [requests EXCEPT ![r] = None]
    /\ UNCHANGED <<server, page, router, address, callback, shown>>

\* Mutant: the interceptor signs out on any error.
FailsSigningOut(r) ==
    /\ requests[r] # None
    /\ memory' = [memory EXCEPT ![requests[r].tab] = None]
    /\ stored' = None
    /\ requests' = [requests EXCEPT ![r] = None]
    /\ UNCHANGED <<server, page, router, address, callback, shown>>

Fails(r) ==
    /\ requests[r] # None
    /\ requests' = [requests EXCEPT ![r] = None]
    /\ UNCHANGED <<server, stored, memory, page, router, address, callback, shown>>

Expire(T) ==
    /\ T \in Expiring
    /\ owner[T] # None /\ T \notin expired
    /\ expired' = expired \cup {T}
    /\ UNCHANGED <<users, owner, left, stored, memory, page, router, address, callback, shown,
                   requests>>

-----------------------------------------------------------------------------
\* What the user does with a tab.
Steer(t) ==
    \/ \E p \in {"away", "auth", "dash"} : Load(t, p)
    \/ Follow(t) \/ Switch(t)
    \/ Back(t) \/ BackToDocument(t)
    \/ Logout(t) \/ Login(t)

CallbackStep(t) == Lookup(t) \/ Create(t) \/ Issue(t) \/ CallbackFails(t)

Routing(t) == SignIn(t) \/ Arrive(t) \/ LoaderFails(t)

Answer(r) == Receive(r) \/ Unauthenticated(r) \/ Fails(r)

Next ==
    \/ \E t \in Tabs : Steer(t) \/ Routing(t) \/ CallbackStep(t)
    \/ \E t \in Tabs, r \in Requests : Send(t, r)
    \/ \E r \in Requests : Handle(r) \/ Answer(r)
    \/ \E e \in Emails : CreateLate(e)
    \/ \E T \in Tokens : Expire(T)

Spec == Init /\ [][Next]_vars

-----------------------------------------------------------------------------
\* Properties.

\* No tab acts for another user than the one it shows, though other tabs of the
\* browser sign in as somebody else meanwhile: what its page shows and what it has in
\* flight are of the user whose token its store holds (connect.ts 14 reads the store
\* of the document, not localStorage; root.tsx gives each page a client of its own).
ActsAsShown ==
    \A t \in Tabs : memory[t] # None =>
        /\ shown[t] # None => shown[t] = owner[memory[t]]
        /\ \A r \in Requests :
              /\ requests[r] # None /\ requests[r].tab = t /\ ~requests[r].orphan
              /\ requests[r].token # None
              => owner[requests[r].token] = owner[memory[t]]

\* However callbacks race, an email has one row, and a token belongs to a row
\* (api/server.go 221-245, models/user.go 12).
LoginsBelong ==
    /\ \A u, v \in users : u.email = v.email \/ u.id = v.id => u = v
    /\ \A t \in Tabs : callback[t] # None /\ callback[t].step = "token" =>
           [id |-> callback[t].id, email |-> callback[t].email] \in users
    /\ \A T \in Tokens : owner[T] # None => \E u \in users : u.id = owner[T]

\* A valid token is lost, from a tab's store or from localStorage, only if the user
\* logs out or signs in, or a document is loaded, or a request that carried no
\* valid token is told so.  That request may be of another tab or of an earlier
\* session (connect.ts 21-23), but an answer to a request with a valid token, or
\* a failure, costs no session.
ToldInvalid(r) == requests[r] # None /\ requests'[r] = None /\ ~Valid(requests[r].token)

ValidTokensSurvive ==
    [][/\ \A t \in Tabs :
             \/ Valid(memory[t]) => memory'[t] = memory[t]
             \/ Steer(t) \/ SignIn(t) \/ Issue(t)
             \/ \E r \in Requests : ToldInvalid(r) /\ requests[r].tab = t
       /\ \/ Valid(stored) => stored' = stored
          \/ \E t \in Tabs : Logout(t) \/ SignIn(t)
          \/ \E r \in Requests : ToldInvalid(r)]_vars

\* A navigation is redirected twice at most: the layout's loader and that of /auth
\* do not send a tab back and forth, though between the two a refused request signs
\* it out, and other tabs sign in and out all the while (auth.tsx 19-28,
\* dash/layout.tsx 6-12, which ask the store of the document, not localStorage).
RedirectsEnd == \A t \in Tabs : redirects[t] <= 2

-----------------------------------------------------------------------------
\* The inductive invariant.

\* Tokens that are anywhere were issued.
TokensIssued ==
    /\ stored # None => owner[stored] # None
    /\ \A t \in Tabs : memory[t] # None => owner[memory[t]] # None
    /\ \A t \in Tabs : address[t] # None => owner[address[t]] # None
    /\ \A r \in Requests : requests[r] # None /\ requests[r].token # None =>
           owner[requests[r].token] # None

\* What an answer says was so, and of a token that was refused still is.
AnswersOK ==
    \A r \in Requests : requests[r] # None =>
        /\ requests[r].answer \in UserIds =>
               requests[r].token # None /\ requests[r].answer = owner[requests[r].token]
        /\ requests[r].answer = "unauthenticated" => ~Valid(requests[r].token)

\* Only a page under the layout has data or requests of its own.
PagesOK ==
    /\ \A t \in Tabs :
          /\ page[t] = "landing" \/ going[t] = "landing" => address[t] # None
          /\ shown[t] # None => page[t] = "dash"
          /\ page[t] = "login" => going[t] = "stay"
          /\ page[t] = "login" <=> callback[t] # None
    /\ \A r \in Requests : requests[r] # None /\ ~requests[r].orphan =>
           page[requests[r].tab] = "dash"

\* While a tab goes somewhere it can lose its token and cannot get one, so that it
\* is sent to /dash first if at all.
RedirectsOK ==
    \A t \in Tabs :
        \/ redirects[t] = 0
        \/ redirects[t] = 1 /\ going[t] = "dash"
        \/ redirects[t] \in 1..2 /\ going[t] = "auth" /\ memory[t] = None

Inv ==
    /\ TypeOK
    /\ TokensIssued
    /\ AnswersOK
    /\ PagesOK
    /\ RedirectsOK
    /\ ActsAsShown
    /\ LoginsBelong
=============================================================================
